---- MODULE Spec2Model ----
(***************************************************************************)
(* Layout and incremental editing engine of reader_docx                    *)
(* (src/src/document_draw.rs): run segmenter, line breaker, justifier,     *)
(* paginator, cursor locator, edit engine and cursor navigation.           *)
(*                                                                         *)
(* Text is modelled as a sequence of graphemes; every grapheme of the      *)
(* alphabet is one Unicode scalar, so it has a byte length (BLen) and      *)
(* yields one glyph.  Style ranges are byte ranges, as in the source.      *)
(* Lengths (f32 in the source) are integers in tenths of a pixel and the   *)
(* zoom factor is an integer number of tenths, so that length * scale is   *)
(* exact.                                                                  *)
(***************************************************************************)
EXTENDS Integers, Sequences, FiniteSets, TLC

VARIABLES
    texts,       \* the parsed document: one list of text runs per paragraph
    paragraphs,  \* DocumentDraw.paragraphs
    cursor,      \* DocumentDraw.cursor (the CursorPos of Cursor::Normal)
    pages,       \* DocumentDraw.pages: the vertical offset of every page
    ctx,         \* DrawStateCtx of the relayout pass in progress / last run
    pc,          \* "input" | "words" | "new" | "laid" | "pass" |
                 \* "unbroken" | "lines" | "placed" | "parsed" |
                 \* "printed" | "failed" (an operation returned Err)
    panicked,    \* "none" | "index" | "slice": how the last call panicked
    op,          \* the last operation applied and what it returned
    saved,       \* what earlier operations looked at or returned (history)
    edits,       \* the number of edit commands (vertical advances, scale
                 \* commands) so far
    doc_scale,   \* DocumentDraw.scale, the zoom factor, in tenths
    fonts        \* the styles whose font the system can resolve

vars == <<texts, paragraphs, cursor, pages, ctx, pc, panicked, op, saved,
          edits, doc_scale, fonts>>

----------------------------------------------------------------------------
(* Bounds of the model *)

\* longest content of one input text run, in graphemes
MaxRunLen == 2
\* most text runs in one input paragraph
MaxRuns == 2
\* most edit commands (Add, Remove, AddSpace) applied to one document
MaxEdits == 3
\* largest |delta| handed to change_char / change_line / change_par
MaxDelta == 2
\* most vertical advances of one pass of the paginator specification
MaxAdvances == 4
\* longest text of the paragraph of the line breaker specification
MaxLineText == 6
\* most scale commands of one run of the zoom specification
MaxScales == 3

----------------------------------------------------------------------------
(* Text: graphemes, byte offsets, slices *)

\* the graphemes of the model: two 1-byte letters, "E" standing for a 2-byte
\* letter (one scalar of two UTF-8 bytes), and a blank
Letters == {"a", "x", "E"}
Blanks == {" "}

\* grapheme.len(): the UTF-8 length in bytes
BLen(g) == IF g = "E" THEN 2 ELSE 1

\* grapheme.trim().is_empty()
IsBlank(g) == g \in Blanks

RECURSIVE ByteLen(_)
\* String::len(): the byte length of a text
ByteLen(t) == IF t = <<>> THEN 0 ELSE BLen(Head(t)) + ByteLen(Tail(t))

\* the byte offset at which grapheme number i (0-based) starts;
\* grapheme_indices(true) yields (ByteOff(t, i), t[i + 1])
ByteOff(t, i) == ByteLen(SubSeq(t, 1, i))

\* is_char_boundary(off)
IsBoundary(t, off) == \E i \in 0..Len(t) : ByteOff(t, i) = off

\* the number of graphemes that start before byte offset off (off a boundary)
GraphemesBefore(t, off) == CHOOSE i \in 0..Len(t) : ByteOff(t, i) = off

\* &s[a..b] panics unless a <= b <= len and both are char boundaries
SliceOk(t, a, b) == a <= b /\ IsBoundary(t, a) /\ IsBoundary(t, b)

\* &s[a..b] for a valid range
Slice(t, a, b) == SubSeq(t, GraphemesBefore(t, a) + 1, GraphemesBefore(t, b))

Min(a, b) == IF a < b THEN a ELSE b
Max(a, b) == IF a > b THEN a ELSE b

Last(s) == s[Len(s)]
Front(s) == SubSeq(s, 1, Len(s) - 1)
\* Vec::remove(i) and Vec::insert(i, x), i 0-based
RemoveAt(s, i) == SubSeq(s, 1, i) \o SubSeq(s, i + 2, Len(s))
InsertAt(s, i, x) == SubSeq(s, 1, i) \o <<x>> \o SubSeq(s, i + 1, Len(s))

----------------------------------------------------------------------------
(* Words and style segments *)

\* the values of TextProperties that occur (they differ in weight)
Styles == {"Regular", "Bold"}

\* the font environments: which styles find_font can resolve
FontSets == SUBSET Styles

\* GlyphsView with Default primitive: glyphs = 0 stands for Primitive::Empty,
\* glyphs = n > 0 for a PlainText primitive laid out from n characters at
\* the font scale `scale` (PlainTextProperties.scale)
GlyphsView(s, e, p) ==
    [start |-> s, end |-> e, properties |-> p, glyphs |-> 0, scale |-> 0]

\* Word::default()
EmptyWord == [word |-> <<>>, glyphs_views |-> <<>>]

\* Word::clone_without_primitive
clone_without_primitive(w) ==
    [word |-> w.word,
     glyphs_views |-> [i \in 1..Len(w.glyphs_views) |->
        GlyphsView(w.glyphs_views[i].start, w.glyphs_views[i].end,
                   w.glyphs_views[i].properties)]]

\* the new segment of push_grapheme_to_curr_word when the style changes
NewSegmentRange(last, g) == [start |-> last, end |-> last + 1]

push_grapheme_to_curr_word(properties, curr_word, g) ==
    LET gvs == curr_word.glyphs_views
        txt == Append(curr_word.word, g)
    IN IF gvs # <<>>
       THEN IF Last(gvs).properties = properties
            THEN [word |-> txt,
                  glyphs_views |->
                    [gvs EXCEPT ![Len(gvs)].end = @ + BLen(g)]]
            ELSE LET r == NewSegmentRange(Last(gvs).end, g)
                 IN [word |-> txt,
                     glyphs_views |->
                       Append(gvs, GlyphsView(r.start, r.end, properties))]
       ELSE [word |-> txt,
             glyphs_views |-> <<GlyphsView(0, BLen(g), properties)>>]

\* the fold state of get_words: the WordState list and the word in progress
finish_curr_word(st) ==
    [words |-> Append(st.words,
                      [state |-> "Finished",
                       word |-> clone_without_primitive(st.curr_word)]),
     curr_word |-> EmptyWord]

RECURSIVE WalkGraphemes(_, _, _)
\* the loop over content.graphemes(true) of one text run
WalkGraphemes(st, properties, content) ==
    IF content = <<>> THEN st
    ELSE LET g == Head(content)
             nx == IF IsBlank(g)
                   THEN finish_curr_word(st)
                   ELSE [st EXCEPT !.curr_word =
                           push_grapheme_to_curr_word(properties, @, g)]
         IN WalkGraphemes(nx, properties, Tail(content))

\* one step of the fold of get_words: one text run
FoldText(words, text) ==
    LET popped == IF words # <<>> /\ Last(words).state = "Unfinished"
                  THEN [words |-> Front(words), curr_word |-> Last(words).word]
                  ELSE [words |-> words, curr_word |-> EmptyWord]
        st == WalkGraphemes(popped, text.properties, text.content)
    IN Append(st.words, [state |-> "Unfinished", word |-> st.curr_word])

RECURSIVE FoldTexts(_, _)
FoldTexts(words, ts) ==
    IF ts = <<>> THEN words ELSE FoldTexts(FoldText(words, Head(ts)), Tail(ts))

\* get_words: the words of one paragraph's text runs
get_words(ts) ==
    LET ws == FoldTexts(<<>>, ts)
    IN [i \in 1..Len(ws) |-> clone_without_primitive(ws[i].word)]

----------------------------------------------------------------------------
(* The segment invariants of a word *)

\* sorted, contiguous, non-overlapping segments whose union is [0, len)
Coverage(w) ==
    LET gvs == w.glyphs_views
    IN IF gvs = <<>> THEN ByteLen(w.word) = 0
       ELSE /\ gvs[1].start = 0
            /\ Last(gvs).end = ByteLen(w.word)
            /\ \A i \in 1..Len(gvs) : gvs[i].start <= gvs[i].end
            /\ \A i \in 1..Len(gvs) - 1 : gvs[i].end = gvs[i + 1].start

\* no two adjacent segments with equal style properties
Merged(w) ==
    \A i \in 1..Len(w.glyphs_views) - 1 :
        w.glyphs_views[i].properties # w.glyphs_views[i + 1].properties

AllWords == UNION {{paragraphs[p].words[i] : i \in 1..Len(paragraphs[p].words)}
                   : p \in 1..Len(paragraphs)}

----------------------------------------------------------------------------
(* Geometry (math.rs).  A Rectangle is [left, top, right, bottom]; x is     *)
(* measured from the page's left edge.                                      *)

\* Rectangle::new(top_left, size)
RectNew(x, y, width, height) ==
    [left |-> x, top |-> y, right |-> x + width, bottom |-> y + height]

\* Rectangle::add_paddings with the same padding on the four sides
add_paddings(r, pad) ==
    [left |-> r.left + pad, top |-> r.top + pad,
     right |-> r.right - pad, bottom |-> r.bottom - pad]

\* Rectangle::get_point_and_size: the size half of the pair
get_point_and_size(r) ==
    [width |-> r.right - r.left, height |-> r.top - r.bottom]

\* Rectangle::width, Rectangle::height
RectWidth(r) == get_point_and_size(r).width
RectHeight(r) == get_point_and_size(r).height

\* Rectangle::move_left_top((0, dy))
move_left_top(r, dy) == [r EXCEPT !.top = @ + dy]

----------------------------------------------------------------------------
(* Program constants *)

DEFAULT_VERTICAL_SPACING == 1
DEFAULT_SPACING_BEFORE == 20
DEFAULT_SPACING_AFTER == 20
DEFAULT_LINE_SPACING == 1
PAGE_SPACE_BETWEEN == 100
DEFAULT_FONT_SIZE == 12
\* PageProperties::default(): size (100, 100), paddings 10
DefaultPageSize == 100
DefaultPaddings == 10
\* DocumentDraw::default(): scroll 100, scale 1
DefaultScroll == 100
DefaultScale == 1

\* length units per pixel, and scale units per 1.0
Unit == 10

DefaultPageProperties ==
    [width |-> DefaultPageSize, height |-> DefaultPageSize,
     paddings |-> DefaultPaddings]

----------------------------------------------------------------------------
(* Glyph materializer *)

\* the scale handed to PlainTextProperties: scale * 2. * size, with the
\* size of the segment and of the paragraph both absent
FontScale(scale) == scale * 2 * DEFAULT_FONT_SIZE

\* the font's layout of n characters at a font scale: a fixed advance of
\* half the scale per glyph (get_glyphs_size: last max_x - first min_x)
GlyphsWidth(n, fscale) == n * (fscale \div 2)

\* ceil of a length to whole pixels
CeilPx(u) == ((u + Unit - 1) \div Unit) * Unit

\* get_glyphs_size: height = (ascent - descent).ceil() at the font scale
GlyphsHeight(fscale) == CeilPx(fscale)

\* Primitive::get_rect().size() of a glyphs view's primitive
PrimSize(gv) ==
    IF gv.glyphs = 0 THEN [width |-> 0, height |-> 0]
    ELSE [width |-> GlyphsWidth(gv.glyphs, gv.scale),
          height |-> GlyphsHeight(gv.scale)]

\* Primitive::get_scale
PrimScale(gv) == IF gv.glyphs = 0 THEN 0 ELSE gv.scale

\* glyphs_view.word_range.end.min(word.word.len())
ClampEnd(e, len) == Min(e, len)

\* get_or_load_font: Ok when the font of the style is cached or found, and
\* the Err of find_font otherwise
get_or_load_font(style) == IF style \in fonts THEN "Ok" ELSE "Err"

RECURSIVE MaterializeViews(_, _, _, _)
\* the loop of create_word_prim over the glyphs views from number i on:
\* clamp the end, slice the content (may panic), resolve the font (its Err
\* is returned with ?, reported as "font"), build the primitive
MaterializeViews(w, gvs, i, sc) ==
    IF i > Len(gvs) THEN [panic |-> "none", glyphs_views |-> gvs]
    ELSE LET e == ClampEnd(gvs[i].end, ByteLen(w.word))
             clamped == [gvs EXCEPT ![i].end = e]
         IN IF ~SliceOk(w.word, gvs[i].start, e)
            THEN [panic |-> "slice", glyphs_views |-> clamped]
            ELSE IF get_or_load_font(gvs[i].properties) = "Err"
            THEN [panic |-> "font", glyphs_views |-> clamped]
            ELSE LET n == Len(Slice(w.word, gvs[i].start, e))
                 IN MaterializeViews(w,
                        [clamped EXCEPT
                            ![i].glyphs = n,
                            ![i].scale = IF n = 0 THEN 0 ELSE FontScale(sc)],
                        i + 1, sc)

\* create_word_prim: [panic, word]
create_word_prim(w, sc) ==
    LET r == MaterializeViews(w, w.glyphs_views, 1, sc)
    IN [panic |-> r.panic, word |-> [w EXCEPT !.glyphs_views = r.glyphs_views]]

RECURSIVE create_words_prims(_, _, _)
\* create_words_prims over words from number i on: [panic, words]
create_words_prims(ws, i, sc) ==
    IF i > Len(ws) THEN [panic |-> "none", words |-> ws]
    ELSE LET r == create_word_prim(ws[i], sc)
         IN IF r.panic # "none" THEN [panic |-> r.panic, words |-> ws]
            ELSE create_words_prims([ws EXCEPT ![i] = r.word], i + 1, sc)

----------------------------------------------------------------------------
(* Paginator *)

\* new_page_with_offset: the rectangle of the page's primitive
new_page_with_offset(page_properties, offset, scale) ==
    RectNew(0, offset, page_properties.width * scale,
            page_properties.height * scale)

\* the new page's offset with the space between pages taken off, not added
NewPageOffsetBack(c) == c.page_rect.bottom - PAGE_SPACE_BETWEEN * c.scale

\* the offset of the page appended by vertical_offset_and_push
NewPageOffset(c) == c.page_rect.bottom + PAGE_SPACE_BETWEEN * c.scale

\* vertical_offset_and_push: [ctx, pages]
vertical_offset_and_push(c, pgs, delta) ==
    IF delta < RectHeight(c.page_content_rect)
    THEN [ctx |-> [c EXCEPT !.page_content_rect = move_left_top(@, delta)],
          pages |-> pgs]
    ELSE LET new_page == new_page_with_offset(c.page_properties,
                                              NewPageOffset(c), c.scale)
         IN [ctx |-> [c EXCEPT !.page_rect = new_page,
                               !.page_content_rect =
                                   add_paddings(new_page,
                                       c.page_properties.paddings * Unit)],
             pages |-> Append(pgs, new_page)]

\* the first page and the DrawStateCtx update_document starts from
FirstCtx(page_properties, scroll, scale) ==
    LET first_page == new_page_with_offset(page_properties, scroll, scale)
    IN [page_rect |-> first_page,
        page_content_rect |->
            add_paddings(first_page, page_properties.paddings * scale),
        page_properties |-> page_properties,
        scale |-> scale]

----------------------------------------------------------------------------
(* Line breaker *)

RECURSIVE WordSizeFold(_, _, _)
\* the fold of get_words_sizes over the glyphs views from number i on
WordSizeFold(gvs, i, acc) ==
    IF i > Len(gvs) THEN acc
    ELSE LET sz == PrimSize(gvs[i])
         IN WordSizeFold(gvs, i + 1,
                [width |-> acc.width + sz.width,
                 height |-> Max(sz.height, acc.height),
                 last_scale |-> PrimScale(gvs[i])])

\* get_words_sizes: (width, height, last_scale) of a word
get_words_sizes(w) ==
    WordSizeFold(w.glyphs_views, 1,
                 [width |-> 0, height |-> 0, last_scale |-> 0])

\* a new Line whose range is end..end, the word that opens it left out
NewLineWithoutWord(end, sz, vertical_space) ==
    [height |-> sz.height,
     min_width |-> sz.width,
     widht_with_spacing |-> sz.width + vertical_space * sz.last_scale,
     last_scale |-> sz.last_scale,
     range |-> [start |-> end, end |-> end]]

\* the Line started when a word does not fit on the current line
NewLine(end, sz, vertical_space) ==
    [height |-> sz.height,
     min_width |-> sz.width,
     widht_with_spacing |-> sz.width + vertical_space * sz.last_scale,
     last_scale |-> sz.last_scale,
     range |-> [start |-> end, end |-> end + 1]]

RECURSIVE LinesFold(_, _, _, _, _, _)
\* the loop of get_lines over the words from number i on
LinesFold(ws, i, lines, curr_line, c, vertical_space) ==
    IF i > Len(ws) THEN Append(lines, curr_line)
    ELSE LET sz == get_words_sizes(ws[i])
         IN IF curr_line.widht_with_spacing + sz.width
                 > RectWidth(c.page_content_rect)
            THEN LinesFold(ws, i + 1, Append(lines, curr_line),
                           NewLine(curr_line.range.end, sz, vertical_space),
                           c, vertical_space)
            ELSE LinesFold(ws, i + 1, lines,
                    [height |-> Max(curr_line.height, sz.height),
                     min_width |-> curr_line.min_width + sz.width,
                     widht_with_spacing |-> curr_line.widht_with_spacing
                         + sz.width + vertical_space * sz.last_scale,
                     last_scale |-> sz.last_scale,
                     range |-> [start |-> curr_line.range.start,
                                end |-> curr_line.range.end + 1]],
                    c, vertical_space)

\* get_lines
get_lines(ws, c, vertical_space) ==
    LinesFold(ws, 1, <<>>,
              [height |-> 0, min_width |-> 0, widht_with_spacing |-> 0,
               last_scale |-> 0, range |-> [start |-> 0, end |-> 0]],
              c, vertical_space)

----------------------------------------------------------------------------
(* Justifier and line positioner.  An Absolute spacing is the quotient of   *)
(* two lengths, kept as the pair num / den (den = 0: the division by a      *)
(* zero word count); a Relative one is a plain factor.                      *)

\* the divisor of the Width spacing: line.range.len()
WidthDivisor(line) == line.range.end - line.range.start

\* get_line_vertical_metrics: (start offset, spacing policy)
get_line_vertical_metrics(justification, c, line, vertical_space) ==
    CASE justification \in {"Start", "None"} ->
            [offset |-> 0, kind |-> "Relative", num |-> vertical_space, den |-> 1]
      [] justification = "Width" ->
            [offset |-> 0, kind |-> "Absolute",
             num |-> RectWidth(c.page_content_rect) - line.min_width,
             den |-> WidthDivisor(line)]
      [] justification = "Center" ->
            [offset |-> (RectWidth(c.page_content_rect)
                            - line.widht_with_spacing) \div 2,
             kind |-> "Relative", num |-> vertical_space, den |-> 1]
      [] justification = "End" ->
            [offset |-> RectWidth(c.page_content_rect) - line.widht_with_spacing,
             kind |-> "Relative", num |-> vertical_space, den |-> 1]

RECURSIVE PlaceViews(_, _, _, _)
\* the inner loop of update_line over one word's glyphs views: the running
\* offset (a multiple of 1/den, kept times den) and the last primitive scale
PlaceViews(gvs, i, st, den) ==
    IF i > Len(gvs) THEN st
    ELSE IF gvs[i].glyphs = 0 THEN PlaceViews(gvs, i + 1, st, den)
    ELSE PlaceViews(gvs, i + 1,
            [xs |-> Append(st.xs, st.vertical_offset),
             vertical_offset |-> st.vertical_offset
                                 + den * PrimSize(gvs[i]).width,
             last_scale |-> PrimScale(gvs[i])],
            den)

RECURSIVE PlaceWords(_, _, _, _, _)
\* the outer loop of update_line over the words i..last of the line
PlaceWords(ws, i, last, st, m) ==
    IF i > last THEN st
    ELSE LET den == IF m.kind = "Absolute" THEN m.den ELSE 1
             placed == PlaceViews(ws[i].glyphs_views, 1, st, den)
             advance == IF m.kind = "Relative" THEN m.num * placed.last_scale
                        ELSE m.num
         IN PlaceWords(ws, i + 1, last,
                [placed EXCEPT !.vertical_offset = @ + advance], m)

\* update_line: the x offsets given to the line's primitives, left to right,
\* and the final running offset, both relative to the content rectangle's
\* left edge and multiplied by the spacing's divisor
update_line(ws, line, m) ==
    LET den == IF m.kind = "Absolute" THEN m.den ELSE 1
    IN PlaceWords(ws, line.range.start + 1, line.range.end,
                  [xs |-> <<>>, vertical_offset |-> den * m.offset,
                   last_scale |-> Unit],
                  m)

----------------------------------------------------------------------------
(* Relayout: update_document *)

RECURSIVE WordsWithText(_, _)
\* the second loop of clear_document over the words from number i on
WordsWithText(ws, i) ==
    IF i > Len(ws) THEN <<>>
    ELSE IF ws[i].word = <<>> THEN WordsWithText(ws, i + 1)
    ELSE <<ws[i]>> \o WordsWithText(ws, i + 1)

RECURSIVE ParagraphsWithWords(_, _)
\* the first loop of clear_document over the paragraphs from number i on
ParagraphsWithWords(pars, i) ==
    IF i > Len(pars) THEN <<>>
    ELSE IF pars[i].words = <<>> THEN ParagraphsWithWords(pars, i + 1)
    ELSE <<pars[i]>> \o ParagraphsWithWords(pars, i + 1)

\* DocumentDraw::clear_document: drop the paragraphs without words, then
\* the words without text
clear_document(pars) ==
    LET kept == ParagraphsWithWords(pars, 1)
    IN [i \in 1..Len(kept) |->
          [kept[i] EXCEPT !.words = WordsWithText(@, 1)]]

RECURSIVE LayoutLines(_, _, _, _, _)
\* the loop of update_document over the lines of one paragraph from number
\* i on: the metrics and the placement of every line, and the vertical
\* advance after every line but the last
LayoutLines(par, lines, i, st, placed) ==
    IF i > Len(lines) THEN [ctx |-> st.ctx, pages |-> st.pages, placed |-> placed]
    ELSE LET m == get_line_vertical_metrics(par.justify, st.ctx, lines[i],
                                            DEFAULT_VERTICAL_SPACING)
             done == [metrics |-> m,
                      content_width |-> RectWidth(st.ctx.page_content_rect),
                      line |-> update_line(par.words, lines[i], m)]
             next == IF i # Len(lines)
                     THEN vertical_offset_and_push(st.ctx, st.pages,
                              DEFAULT_LINE_SPACING * lines[i].height)
                     ELSE st
         IN LayoutLines(par, lines, i + 1, next, Append(placed, done))

RECURSIVE RelayoutFrom(_, _, _)
\* the loop of update_document over the paragraphs from number i on
RelayoutFrom(pars, i, st) ==
    IF i > Len(pars) THEN [paragraphs |-> pars, ctx |-> st.ctx, pages |-> st.pages]
    ELSE LET before == IF i # 1
                       THEN vertical_offset_and_push(st.ctx, st.pages,
                                DEFAULT_SPACING_BEFORE * st.ctx.scale)
                       ELSE st
             lines == get_lines(pars[i].words, before.ctx,
                                DEFAULT_VERTICAL_SPACING)
             spaced == LayoutLines(pars[i], lines, 1, before, <<>>)
             after == IF i # Len(pars)
                      THEN vertical_offset_and_push(spaced.ctx, spaced.pages,
                                DEFAULT_SPACING_AFTER * spaced.ctx.scale)
                      ELSE [ctx |-> spaced.ctx, pages |-> spaced.pages]
         IN RelayoutFrom([pars EXCEPT ![i].lines = lines], i + 1, after)

\* update_document: [paragraphs, ctx, pages]
update_document(pars, page_properties, scroll, scale) ==
    LET c == FirstCtx(page_properties, scroll, scale)
    IN RelayoutFrom(clear_document(pars), 1,
                    [ctx |-> c, pages |-> <<c.page_rect>>])

----------------------------------------------------------------------------
(* Zoom: scale_by_ratio.  A ratio is the quotient num / den of the new and *)
(* the old zoom factor.                                                    *)

\* the bounds of scale.clamp(0.1, 2.), in tenths
MinScale == 1
MaxScale == 20

\* scale.clamp(0.1, 2.)
ClampScale(s) == Max(MinScale, Min(s, MaxScale))

\* PrimitiveProperties::scale(ratio) and update_prim on the primitive of a
\* glyphs view: scale * ratio for a PlainText, nothing for an Empty
ScalePrim(gv, num, den) ==
    IF gv.glyphs = 0 THEN gv ELSE [gv EXCEPT !.scale = (@ * num) \div den]

\* what scale_by_ratio does to a cached line metric: metric /= ratio
ScaleMetric(m, num, den) == (m * den) \div num

\* DrawState::scale_by_ratio
scale_by_ratio(pars, num, den) ==
    [p \in 1..Len(pars) |->
        [pars[p] EXCEPT
            !.words = [k \in 1..Len(@) |->
                [@[k] EXCEPT !.glyphs_views = [j \in 1..Len(@) |->
                    ScalePrim(@[j], num, den)]]],
            !.lines = [l \in 1..Len(@) |->
                [@[l] EXCEPT
                    !.widht_with_spacing = ScaleMetric(@, num, den),
                    !.min_width = ScaleMetric(@, num, den),
                    !.height = ScaleMetric(@, num, den),
                    !.last_scale = ScaleMetric(@, num, den)]]]]

----------------------------------------------------------------------------
(* Cursor locator *)

Nothing == [kind |-> "Nothing"]
WordTarget(w, i) == [kind |-> "WordTarget", word |-> w, idx |-> i]
WhiteSpace(p, n) == [kind |-> "WhiteSpace", prev |-> p, next |-> n]
LineEnd(e) == [kind |-> "LineEnd", end |-> e]

\* v[i] panics unless 0 <= i < len; an index held as usize::MAX reads -1
InRange(i, len) == 0 <= i /\ i < len

\* the indexing get_cursor_target does before it walks: paragraphs[par_idx],
\* lines[line_idx], words[line.range]
CursorIndexOk(pars, cur) ==
    /\ InRange(cur.par_idx, Len(pars))
    /\ InRange(cur.line_idx, Len(pars[cur.par_idx + 1].lines))
    /\ pars[cur.par_idx + 1].lines[cur.line_idx + 1].range.end
            <= Len(pars[cur.par_idx + 1].words)

\* a gap that takes two units off idx
GapUnitsTwo == 1 + 1

\* the units the walk takes off idx when it passes a gap
GapUnits == 1

RECURSIVE WalkTargets(_, _, _)
\* the while-let loop of get_cursor_target over the deque of targets; an
\* entry is [word_idx, kind, len] with len the word's grapheme count
WalkTargets(targets, idx, n) ==
    IF targets = <<>> THEN Nothing
    ELSE LET t == Head(targets)
             rest == Tail(targets)
         IN CASE t.kind = "WordTarget" ->
                    IF idx < t.len THEN WordTarget(t.word_idx, idx)
                    ELSE WalkTargets(
                            <<[word_idx |-> t.word_idx, len |-> 0,
                               kind |-> IF rest # <<>> THEN "WhiteSpace"
                                        ELSE "LineEnd"]>> \o rest,
                            idx - t.len, n)
              [] t.kind = "WhiteSpace" ->
                    IF idx = 0 THEN WhiteSpace(t.word_idx, t.word_idx + 1)
                    ELSE WalkTargets(rest, idx - GapUnits, n)
              [] t.kind = "LineEnd" ->
                    IF idx = 0 THEN LineEnd(t.word_idx)
                    ELSE WalkTargets(rest, idx, n)

\* the walk of get_cursor_target over the words of one line
LineTarget(ws, line, char_idx) ==
    LET n == line.range.end - line.range.start
    IN WalkTargets([k \in 1..n |->
                      [word_idx |-> k - 1, kind |-> "WordTarget",
                       len |-> Len(ws[line.range.start + k].word)]],
                   char_idx, n)

\* get_cursor_target, for a cursor whose indexes are in range
get_cursor_target(pars, cur) ==
    LineTarget(pars[cur.par_idx + 1].words,
               pars[cur.par_idx + 1].lines[cur.line_idx + 1],
               cur.char_idx)

----------------------------------------------------------------------------
(* Cursor navigation.  Each returns [panic, cursor].                       *)

\* get_curr_line_len: the glyphs of the line's primitives plus one per word
RECURSIVE SumGlyphs(_, _)
SumGlyphs(gvs, i) ==
    IF i > Len(gvs) THEN 0 ELSE gvs[i].glyphs + SumGlyphs(gvs, i + 1)

RECURSIVE LineLenFold(_, _, _)
LineLenFold(ws, i, last) ==
    IF i > last THEN 0
    ELSE SumGlyphs(ws[i].glyphs_views, 1) + 1 + LineLenFold(ws, i + 1, last)

get_curr_line_len(pars, cur) ==
    LET line == pars[cur.par_idx + 1].lines[cur.line_idx + 1]
    IN LineLenFold(pars[cur.par_idx + 1].words, line.range.start + 1,
                   line.range.end)

\* get_curr_par_lines_len
get_curr_par_lines_len(pars, cur) == Len(pars[cur.par_idx + 1].lines)

\* change_par without the upper clamp .min(len - 1)
change_par_unclamped(pars, cur, par_delta) ==
    [panic |-> "none",
     cursor |-> [cur EXCEPT !.par_idx = Max(cur.par_idx + par_delta, 0)]]

\* change_par: clamp to [0, len - 1]; with no paragraphs the result -1 is
\* cast to usize::MAX, which the model keeps as -1
change_par(pars, cur, par_delta) ==
    [panic |-> "none",
     cursor |-> [cur EXCEPT !.par_idx =
                    Min(Max(cur.par_idx + par_delta, 0), Len(pars) - 1)]]

\* where change_line puts the line count of the paragraph it moved back to
LineUnderflow(cur, lines_len) == [cur EXCEPT !.char_idx = lines_len]

\* change_line
change_line(pars, cur, line_delta) ==
    IF cur.line_idx + line_delta < 0
    THEN LET moved == change_par(pars, cur, -1).cursor
         IN IF ~InRange(moved.par_idx, Len(pars))
            THEN [panic |-> "index", cursor |-> moved]
            ELSE [panic |-> "none",
                  cursor |-> LineUnderflow(moved,
                                 get_curr_par_lines_len(pars, moved))]
    ELSE IF ~InRange(cur.par_idx, Len(pars))
    THEN [panic |-> "index", cursor |-> cur]
    ELSE IF cur.line_idx + line_delta >= get_curr_par_lines_len(pars, cur)
    THEN [panic |-> "none",
          cursor |-> [change_par(pars, cur, 1).cursor EXCEPT !.line_idx = 0]]
    ELSE [panic |-> "none",
          cursor |-> [cur EXCEPT !.line_idx = cur.line_idx + line_delta]]

\* change_char
change_char(pars, cur, char_delta) ==
    IF cur.char_idx + char_delta < 0
    THEN LET moved == change_line(pars, cur, -1)
         IN IF moved.panic # "none" THEN moved
            ELSE IF ~CursorIndexOk(pars, moved.cursor)
            THEN [panic |-> "index", cursor |-> moved.cursor]
            ELSE [panic |-> "none",
                  cursor |-> [moved.cursor EXCEPT !.char_idx =
                                 get_curr_line_len(pars, moved.cursor)]]
    ELSE IF ~CursorIndexOk(pars, cur)
    THEN [panic |-> "index", cursor |-> cur]
    ELSE IF cur.char_idx + char_delta >= get_curr_line_len(pars, cur)
    THEN LET moved == change_line(pars, cur, 1)
         IN IF moved.panic # "none" THEN moved
            ELSE [panic |-> "none",
                  cursor |-> [moved.cursor EXCEPT !.char_idx = 0]]
    ELSE [panic |-> "none",
          cursor |-> [cur EXCEPT !.char_idx = cur.char_idx + char_delta]]

----------------------------------------------------------------------------
(* Edit engine.  Each operation returns [panic, paragraphs, result,        *)
(* target]: result is the list of (paragraph index, word index) pairs.     *)

\* clear_glyphs without the merge of equal neighbours
clear_glyphs_unmerged(w) == clone_without_primitive(w)

\* Word::clear_glyphs: merge neighbours of equal style, drop the primitives
RECURSIVE ClearFold(_, _, _, _)
ClearFold(gvs, i, prev, glyphs) ==
    IF i > Len(gvs) THEN Append(glyphs, prev)
    ELSE IF prev.properties = gvs[i].properties
    THEN ClearFold(gvs, i + 1, [prev EXCEPT !.end = gvs[i].end], glyphs)
    ELSE ClearFold(gvs, i + 1,
                   GlyphsView(gvs[i].start, gvs[i].end, gvs[i].properties),
                   Append(glyphs, prev))

clear_glyphs(w) ==
    IF w.glyphs_views = <<>> THEN w
    ELSE [w EXCEPT !.glyphs_views =
            ClearFold(w.glyphs_views, 2,
                      GlyphsView(w.glyphs_views[1].start, w.glyphs_views[1].end,
                                 w.glyphs_views[1].properties),
                      <<>>)]

\* the byte offset just after grapheme number idx: the `end` computed by the
\* grapheme_indices loop of insert and insert_space (0 when idx is past the
\* last grapheme)
EndOfGrapheme(t, idx) ==
    IF idx < Len(t) THEN ByteOff(t, idx) + BLen(t[idx + 1]) ELSE 0

\* the shift insert applies to one segment of the word at a WordTarget
ShiftInserted(gv, idx, len) ==
    [gv EXCEPT
        !.start = IF gv.start >= idx /\ gv.start # 0 THEN @ + len ELSE @,
        !.end = IF gv.end >= idx THEN @ + len ELSE @]

\* insert at WordTarget { word, idx }
InsertInWord(w, idx, data) ==
    LET end == EndOfGrapheme(w.word, idx)
        cut == GraphemesBefore(w.word, end)
    IN [word |-> SubSeq(w.word, 1, cut) \o data
                    \o SubSeq(w.word, cut + 1, Len(w.word)),
        glyphs_views |-> [i \in 1..Len(w.glyphs_views) |->
            ShiftInserted(w.glyphs_views[i], idx, ByteLen(data))]]

\* an insert at a gap that appends to the next word instead of prepending
InsertAtEndOfWord(w, data) ==
    [word |-> w.word \o data, glyphs_views |-> w.glyphs_views]

\* insert at WhiteSpace { next }: prepend to the next word
InsertBeforeWord(w, data) ==
    [word |-> data \o w.word,
     glyphs_views |-> [i \in 1..Len(w.glyphs_views) |->
        [w.glyphs_views[i] EXCEPT
            !.start = IF @ # 0 THEN @ + ByteLen(data) ELSE @,
            !.end = @ + ByteLen(data)]]]

\* insert at LineEnd { end }: append to the last word of the line
InsertAfterWord(w, data) ==
    [word |-> w.word \o data,
     glyphs_views |->
        IF w.glyphs_views = <<>> THEN <<>>
        ELSE [w.glyphs_views EXCEPT ![Len(w.glyphs_views)].end =
                @ + ByteLen(data)]]

\* DocumentDraw::insert
insert(pars, cur, data) ==
    IF ~CursorIndexOk(pars, cur)
    THEN [panic |-> "index", paragraphs |-> pars, result |-> <<>>,
          target |-> Nothing]
    ELSE LET target == get_cursor_target(pars, cur)
             p == cur.par_idx + 1
             offset == pars[p].lines[cur.line_idx + 1].range.start
             ws == pars[p].words
             done(k, w) == [panic |-> "none",
                            paragraphs |-> [pars EXCEPT ![p].words[k + 1] = w],
                            result |-> <<<<cur.par_idx, k>>>>,
                            target |-> target]
         IN CASE target.kind = "WordTarget" ->
                    done(offset + target.word,
                         InsertInWord(ws[offset + target.word + 1],
                                      target.idx, data))
              [] target.kind = "WhiteSpace" ->
                    done(offset + target.next,
                         InsertBeforeWord(ws[offset + target.next + 1], data))
              [] target.kind = "LineEnd" ->
                    done(offset + target.end,
                         InsertAfterWord(ws[offset + target.end + 1], data))
              [] target.kind = "Nothing" ->
                    [panic |-> "none", paragraphs |-> pars, result |-> <<>>,
                     target |-> target]

\* the amount remove takes off a segment bound: (start - end).max(0)
RemoveShift(start, end) == Max(start - end, 0)

\* the segment loop shared by the WordTarget and LineEnd branches of remove
ShiftRemoved(gv, idx, start, end) ==
    [gv EXCEPT
        !.start = IF gv.start >= idx /\ gv.start # 0
                  THEN @ - RemoveShift(start, end) ELSE @,
        !.end = IF gv.end >= idx THEN @ - RemoveShift(start, end) ELSE @]

\* remove the grapheme occupying bytes [start, end) and clear the glyphs
RemoveGrapheme(w, idx, start, end) ==
    clear_glyphs(
        [word |-> Slice(w.word, 0, start) \o Slice(w.word, end, ByteLen(w.word)),
         glyphs_views |-> [i \in 1..Len(w.glyphs_views) |->
            ShiftRemoved(w.glyphs_views[i], idx, start, end)]])

\* remove at WhiteSpace { prev, next }: merge next into prev
MergeWords(prev, next) ==
    LET end == IF prev.glyphs_views = <<>> THEN 0
               ELSE Last(prev.glyphs_views).end
        moved == [i \in 1..Len(next.glyphs_views) |->
                    GlyphsView(next.glyphs_views[i].start + end,
                               next.glyphs_views[i].end + end,
                               next.glyphs_views[i].properties)]
    IN clear_glyphs([word |-> prev.word \o next.word,
                     glyphs_views |-> prev.glyphs_views \o moved])

\* DocumentDraw::remove
remove(pars, cur) ==
    IF ~CursorIndexOk(pars, cur)
    THEN [panic |-> "index", paragraphs |-> pars, result |-> <<>>,
          target |-> Nothing]
    ELSE LET target == get_cursor_target(pars, cur)
             p == cur.par_idx + 1
             offset == pars[p].lines[cur.line_idx + 1].range.start
             ws == pars[p].words
             out(words, result) ==
                [panic |-> "none",
                 paragraphs |-> [pars EXCEPT ![p].words = words],
                 result |-> result, target |-> target]
         IN CASE target.kind = "WordTarget" ->
                    LET k == offset + target.word
                        w == ws[k + 1]
                        start == ByteOff(w.word, target.idx)
                        end == start + BLen(w.word[target.idx + 1])
                    IN IF ByteLen(w.word) = 1
                       THEN out(RemoveAt(ws, k), <<>>)
                       ELSE out([ws EXCEPT ![k + 1] =
                                    RemoveGrapheme(w, target.idx, start, end)],
                                <<<<cur.par_idx, k>>>>)
              [] target.kind = "WhiteSpace" ->
                    LET next_word == ws[offset + target.next + 1]
                        removed == RemoveAt(ws, offset + target.next)
                    IN out([removed EXCEPT ![offset + target.prev + 1] =
                                MergeWords(@, next_word)],
                           <<<<cur.par_idx, offset + target.prev>>>>)
              [] target.kind = "LineEnd" ->
                    LET k == offset + target.end
                        w == ws[k + 1]
                    IN IF ByteLen(w.word) = 1
                       THEN out(RemoveAt(ws, k), <<>>)
                       ELSE IF w.word # <<>>
                       THEN LET start == ByteOff(w.word, Len(w.word) - 1)
                                end == ByteLen(w.word)
                            IN out([ws EXCEPT ![k + 1] =
                                        RemoveGrapheme(w, end, start, end)],
                                   <<<<cur.par_idx, k>>>>)
                       ELSE out(ws, <<>>)
              [] target.kind = "Nothing" -> out(ws, <<>>)

\* the position at which insert_space puts the new word
SplitInsertAt(offset, word_idx) == word_idx + 1

RECURSIVE SplitViews(_, _, _, _, _)
\* the loop of insert_space over the segments: those of the left and of the
\* right word
SplitViews(gvs, i, end, word_glyphs, new_glyphs) ==
    IF i > Len(gvs) THEN [left |-> word_glyphs, right |-> new_glyphs]
    ELSE LET gv == gvs[i]
         IN IF gv.end < end
            THEN SplitViews(gvs, i + 1, end,
                    Append(word_glyphs,
                           GlyphsView(gv.start, gv.end, gv.properties)),
                    new_glyphs)
            ELSE IF gv.start < end /\ gv.end >= end
            THEN SplitViews(gvs, i + 1, end,
                    Append(word_glyphs,
                           GlyphsView(gv.start, end, gv.properties)),
                    Append(new_glyphs,
                           GlyphsView(0, gv.end - end, gv.properties)))
            ELSE SplitViews(gvs, i + 1, end, word_glyphs,
                    Append(new_glyphs,
                           GlyphsView(gv.start - end, gv.end - end,
                                      gv.properties)))

\* DocumentDraw::insert_space
insert_space(pars, cur) ==
    IF ~CursorIndexOk(pars, cur)
    THEN [panic |-> "index", paragraphs |-> pars, result |-> <<>>,
          target |-> Nothing]
    ELSE LET target == get_cursor_target(pars, cur)
             p == cur.par_idx + 1
             offset == pars[p].lines[cur.line_idx + 1].range.start
             ws == pars[p].words
         IN IF target.kind = "WordTarget"
            THEN LET k == offset + target.word
                     w == ws[k + 1]
                     end == EndOfGrapheme(w.word, target.idx)
                     parts == SplitViews(w.glyphs_views, 1, end, <<>>, <<>>)
                     new_word == [word |-> Slice(w.word, end, ByteLen(w.word)),
                                  glyphs_views |-> parts.right]
                     left == [word |-> Slice(w.word, 0, end),
                              glyphs_views |-> parts.left]
                 IN [panic |-> "none",
                     paragraphs |-> [pars EXCEPT ![p].words =
                        InsertAt([ws EXCEPT ![k + 1] = left],
                                 SplitInsertAt(offset, target.word), new_word)],
                     result |-> <<<<cur.par_idx, k>>, <<cur.par_idx, k + 1>>>>,
                     target |-> target]
            ELSE [panic |-> "none", paragraphs |-> pars, result |-> <<>>,
                  target |-> target]

----------------------------------------------------------------------------
(* Inputs *)

RECURSIVE SeqsUpTo(_, _)
\* all sequences over S of length at most n
SeqsUpTo(S, n) ==
    IF n = 0 THEN {<<>>}
    ELSE LET shorter == SeqsUpTo(S, n - 1)
         IN shorter \cup {Append(s, x) : s \in {t \in shorter : Len(t) = n - 1},
                                         x \in S}

\* a text run: TextNode { properties, content }
TextNodes == [properties : Styles,
              content : SeqsUpTo(Letters \cup Blanks, MaxRunLen) \ {<<>>}]

\* the text runs of one paragraph
RunLists == SeqsUpTo(TextNodes, MaxRuns)

NoOp == [name |-> "none", arg |-> 0, result |-> <<>>, target |-> Nothing,
         edited |-> <<>>]
NoCtx == [scale |-> 0]
NoCursor == [par_idx |-> 0, line_idx |-> 0, char_idx |-> 0]
NothingSaved == [stage |-> "none"]

\* TextNode { properties, content }
Run(properties, content) == [properties |-> properties, content |-> content]

\* the documents the editor is started on: no paragraph; one paragraph with
\* a two-style word and a 2-byte word; one paragraph whose first word changes
\* style at a 2-byte grapheme; two paragraphs, the first of two lines
Documents ==
    { <<>>,
      << <<Run("Regular", <<"a", "x">>), Run("Bold", <<"a", " ", "E">>)>> >>,
      << <<Run("Regular", <<"a">>), Run("Bold", <<"E", "a", " ", "x">>)>> >>,
      << <<Run("Regular", <<"a", "x", " ", "x", "a", " ">>),
           Run("Bold", <<"a">>)>>,
         <<Run("Bold", <<"E", "a">>)>> >> }

\* the strings typed in Edit mode (DocumentCommand::Add)
AddData == {<<"x">>}

Deltas == (-MaxDelta)..MaxDelta

----------------------------------------------------------------------------
(* Specification of the run segmenter: get_words applied to every bounded  *)
(* list of text runs.                                                      *)

InitWords ==
    /\ texts \in {<<rl>> : rl \in RunLists}
    /\ paragraphs = <<>>
    /\ cursor = NoCursor
    /\ pages = <<>>
    /\ ctx = NoCtx
    /\ pc = "input"
    /\ panicked = "none"
    /\ op = NoOp
    /\ saved = NothingSaved
    /\ edits = 0
    /\ doc_scale = DefaultScale * Unit
    /\ fonts = Styles

\* let mut words = get_words(texts)
GetWords ==
    /\ pc = "input"
    /\ paragraphs' = <<[words |-> get_words(texts[1]), lines |-> <<>>,
                        justify |-> "None"]>>
    /\ pc' = "words"
    /\ op' = [NoOp EXCEPT !.name = "get_words"]
    /\ UNCHANGED <<fonts, doc_scale, texts, cursor, pages, ctx, panicked, saved, edits>>

NextWords == GetWords

SpecWords == InitWords /\ [][NextWords]_vars

----------------------------------------------------------------------------
(* Specification of the editor: a document is loaded, laid out, and then   *)
(* edited and navigated by document commands.                              *)

Init ==
    /\ texts \in Documents
    /\ paragraphs = <<>>
    /\ cursor = NoCursor
    /\ pages = <<>>
    /\ ctx = NoCtx
    /\ pc = "input"
    /\ panicked = "none"
    /\ op = NoOp
    /\ saved = NothingSaved
    /\ edits = 0
    /\ doc_scale = DefaultScale * Unit
    /\ fonts \in FontSets

RECURSIVE LoadParagraphs(_, _, _)
\* the loop of new_document_draw over the paragraph nodes from number i on
LoadParagraphs(ts, i, pars) ==
    IF i > Len(ts) THEN [panic |-> "none", paragraphs |-> pars]
    ELSE LET r == create_words_prims(get_words(ts[i]), 1, doc_scale)
         IN IF r.panic # "none" THEN [panic |-> r.panic, paragraphs |-> pars]
            ELSE LoadParagraphs(ts, i + 1,
                    Append(pars, [words |-> r.words, lines |-> <<>>,
                                  justify |-> "None"]))

\* DrawState::new_document_draw
NewDocumentDraw ==
    /\ pc = "input"
    /\ panicked = "none"
    /\ LET r == LoadParagraphs(texts, 1, <<>>)
       IN IF r.panic = "font"
          THEN /\ pc' = "failed"
               /\ UNCHANGED <<paragraphs, pages, panicked>>
          ELSE IF r.panic # "none"
          THEN /\ panicked' = r.panic
               /\ UNCHANGED <<paragraphs, pages, pc>>
          ELSE /\ paragraphs' = r.paragraphs
               /\ pages' = <<new_page_with_offset(DefaultPageProperties,
                                 DefaultScroll * Unit, doc_scale)>>
               /\ pc' = "new"
               /\ UNCHANGED panicked
    /\ op' = [NoOp EXCEPT !.name = "new_document_draw"]
    /\ UNCHANGED <<fonts, doc_scale, texts, cursor, ctx, saved, edits>>

\* the relayout every edit command ends with
Relayout(pars) ==
    update_document(pars, DefaultPageProperties, DefaultScroll * Unit,
                    doc_scale)

\* DrawState::update_document, the first pass over a new document (a later
\* pass over an unchanged document recomputes the same lines and pages)
UpdateDocument ==
    /\ pc = "new"
    /\ panicked = "none"
    /\ LET r == Relayout(paragraphs)
       IN /\ paragraphs' = r.paragraphs
          /\ pages' = r.pages
          /\ ctx' = r.ctx
    /\ pc' = "laid"
    /\ op' = [NoOp EXCEPT !.name = "update_document"]
    /\ UNCHANGED <<fonts, doc_scale, texts, cursor, panicked, saved, edits>>

Ready == pc \in {"new", "laid"} /\ panicked = "none"

\* a navigation call: the cursor moves or the call panics
Navigate(name, d, r) ==
    /\ IF r.panic # "none"
       THEN panicked' = r.panic /\ UNCHANGED cursor
       ELSE cursor' = r.cursor /\ UNCHANGED panicked
    /\ op' = [NoOp EXCEPT !.name = name]
    /\ saved' = NothingSaved
    /\ UNCHANGED <<fonts, doc_scale, texts, paragraphs, pages, ctx, pc, edits>>

\* DocumentCommand::ChangeCharIdx(d)
ChangeCharIdx(d) ==
    /\ Ready
    /\ Navigate("ChangeCharIdx", d, change_char(paragraphs, cursor, d))

\* DocumentCommand::ChangeLineIdx(d)
ChangeLineIdx(d) ==
    /\ Ready
    /\ Navigate("ChangeLineIdx", d, change_line(paragraphs, cursor, d))

\* DocumentDraw::change_par(d), called directly
ChangePar(d) ==
    /\ Ready
    /\ Navigate("change_par", d, change_par(paragraphs, cursor, d))

RECURSIVE MaterializeResult(_, _, _)
\* the for_each of process_document_command over the returned pairs
MaterializeResult(pars, result, i) ==
    IF i > Len(result) THEN [panic |-> "none", paragraphs |-> pars]
    ELSE LET par_idx == result[i][1]
             word_idx == result[i][2]
         IN IF ~InRange(par_idx, Len(pars))
               \/ ~InRange(word_idx, Len(pars[par_idx + 1].words))
            THEN [panic |-> "index", paragraphs |-> pars]
            ELSE LET r == create_word_prim(pars[par_idx + 1].words[word_idx + 1],
                                          doc_scale)
                 IN IF r.panic # "none"
                    THEN [panic |-> r.panic, paragraphs |-> pars]
                    ELSE MaterializeResult(
                            [pars EXCEPT ![par_idx + 1].words[word_idx + 1] =
                                r.word],
                            result, i + 1)

\* the words of the paragraph an edit worked on, as the edit returned them
EditedWords(r) ==
    IF r.panic = "none" /\ InRange(cursor.par_idx, Len(r.paragraphs))
    THEN LET ws == r.paragraphs[cursor.par_idx + 1].words
         IN [i \in 1..Len(ws) |-> clone_without_primitive(ws[i])]
    ELSE <<>>

\* the rest of an edit command once the edit operation r returned: the
\* glyph runs of the returned words, the relayout, the cursor step
FinishEdit(name, arg, r, char_delta) ==
    LET m == IF r.panic # "none" THEN [panic |-> r.panic, paragraphs |-> <<>>]
             ELSE MaterializeResult(r.paragraphs, r.result, 1)
        l == Relayout(m.paragraphs)
        c == IF m.panic # "none" THEN [panic |-> m.panic, cursor |-> cursor]
             ELSE change_char(l.paragraphs, cursor, char_delta)
    IN /\ op' = [name |-> name, arg |-> arg, result |-> r.result,
                 target |-> r.target, edited |-> EditedWords(r)]
       /\ IF c.panic = "font"
          THEN /\ pc' = "failed"
               /\ UNCHANGED <<paragraphs, pages, ctx, cursor, panicked>>
          ELSE IF c.panic # "none"
          THEN /\ panicked' = c.panic
               /\ UNCHANGED <<paragraphs, pages, ctx, cursor, pc>>
          ELSE /\ paragraphs' = l.paragraphs
               /\ pages' = l.pages
               /\ ctx' = l.ctx
               /\ cursor' = c.cursor
               /\ pc' = "laid"
               /\ UNCHANGED panicked
       /\ edits' = edits + 1
       /\ UNCHANGED <<fonts, texts, doc_scale>>

\* the state of the run builder of get_word_xml_document: the runs appended
\* to the paragraph element, text_cont and text_prop ("None" for None)
NoRuns == [panic |-> "none", runs |-> <<>>, text_cont |-> <<>>,
           text_prop |-> "None"]

\* a w:r element with the run properties prop and the text text
RunElem(prop, text) == [properties |-> prop, text |-> text]

RECURSIVE XmlViews(_, _, _)
\* the loop of get_word_xml_document over the glyphs views of a word, from
\* number i on; word.get(range) is None for a range that is no slice of the
\* word, and the expect panics
XmlViews(w, i, st) ==
    IF i > Len(w.glyphs_views) \/ st.panic # "none" THEN st
    ELSE LET gv == w.glyphs_views[i]
         IN IF ~(SliceOk(w.word, gv.start, gv.end)
                 /\ gv.end <= ByteLen(w.word))
            THEN [st EXCEPT !.panic = "expect"]
            ELSE LET t == Slice(w.word, gv.start, gv.end)
                 IN XmlViews(w, i + 1,
                      IF st.text_prop = "None"
                      THEN [st EXCEPT !.text_prop = gv.properties,
                                      !.text_cont = t]
                      ELSE IF st.text_prop # gv.properties
                      THEN [st EXCEPT
                              !.runs = Append(@, RunElem(st.text_prop,
                                                         st.text_cont)),
                              !.text_prop = gv.properties,
                              !.text_cont = t]
                      ELSE [st EXCEPT !.text_cont = @ \o t])

RECURSIVE XmlWords(_, _, _)
\* the loop of get_word_xml_document over the words of a paragraph, from
\* number i on: a blank is added to a text_cont that is not empty
XmlWords(ws, i, st) ==
    IF i > Len(ws) \/ st.panic # "none" THEN st
    ELSE XmlWords(ws, i + 1,
            XmlViews(ws[i], 1,
                IF Len(st.text_cont) > 0
                THEN [st EXCEPT !.text_cont = @ \o <<" ">>]
                ELSE st))

\* the runs of one paragraph element: the runs closed at a style change and
\* the last run, with text_prop.unwrap_or_default()
XmlParagraph(par) ==
    LET st == XmlWords(par.words, 1, NoRuns)
    IN [panic |-> st.panic,
        runs |-> Append(st.runs,
                    RunElem(IF st.text_prop = "None" THEN "Regular"
                            ELSE st.text_prop, st.text_cont))]

RECURSIVE get_word_xml_document(_, _, _)
\* DocumentDraw::get_word_xml_document, the paragraphs from number i on:
\* [panic, body], the body being the runs of every paragraph element
get_word_xml_document(pars, i, body) ==
    IF i > Len(pars) THEN [panic |-> "none", body |-> body]
    ELSE LET r == XmlParagraph(pars[i])
         IN IF r.panic # "none" THEN [panic |-> r.panic, body |-> body]
            ELSE get_word_xml_document(pars, i + 1, Append(body, r.runs))

\* DocumentCommand::Save(file): the archive is rewritten with the document
\* part rebuilt by get_word_xml_document; the document draw is only read
Save ==
    /\ Ready
    /\ LET r == get_word_xml_document(paragraphs, 1, <<>>)
       IN /\ panicked' = r.panic
          /\ op' = [NoOp EXCEPT !.name = "Save", !.result = r.body]
    /\ saved' = NothingSaved
    /\ UNCHANGED <<fonts, doc_scale, texts, paragraphs, cursor, pages, ctx, pc,
                   edits>>

\* an edit command may still be applied (model bound)
CanEdit == Ready /\ edits < MaxEdits

\* DocumentCommand::Add(data)
Add(data) ==
    /\ CanEdit
    /\ LET r == insert(paragraphs, cursor, data)
       IN /\ FinishEdit("Add", data, r, 1)
          /\ saved' = IF r.panic = "none" /\ r.result # <<>> /\ data = <<"x">>
                      THEN [stage |-> "inserted",
                            par |-> r.result[1][1], word |-> r.result[1][2],
                            before |-> clone_without_primitive(
                                paragraphs[r.result[1][1] + 1]
                                    .words[r.result[1][2] + 1])]
                      ELSE NothingSaved

\* DocumentCommand::Remove
Remove ==
    /\ CanEdit
    /\ FinishEdit("Remove", 0, remove(paragraphs, cursor), -1)
    /\ saved' = IF saved.stage = "inserted"
                THEN [saved EXCEPT !.stage = "removed"]
                ELSE NothingSaved

\* DocumentCommand::AddSpace
AddSpace ==
    /\ CanEdit
    /\ FinishEdit("AddSpace", 0, insert_space(paragraphs, cursor), 1)
    /\ saved' = NothingSaved

Next ==
    \/ NewDocumentDraw
    \/ UpdateDocument
    \/ \E d \in Deltas : ChangeCharIdx(d)
    \/ \E d \in Deltas : ChangeLineIdx(d)
    \/ \E d \in Deltas : ChangePar(d)
    \/ \E data \in AddData : Add(data)
    \/ Remove
    \/ AddSpace
    \/ Save

Spec == Init /\ [][Next]_vars

----------------------------------------------------------------------------
(* Specification of the line breaker, the justifier and the cursor locator: *)
(* one paragraph of plain text is broken into lines for several content     *)
(* widths, its lines are placed, and the cursor is located on them.         *)

\* Option<Justification> of a paragraph
Justifications == {"None", "Start", "Width", "Center", "End"}

\* the page widths tried, in pixels (content widths of 20, 60 and 120)
PageWidths == {40, 80, 140}

\* the texts of the paragraph
LineTexts == SeqsUpTo({"a", " "}, MaxLineText) \ {<<>>}

\* the cursor positions tried
LineIdxs == 0..MaxLineText
CharIdxs == 0..(MaxLineText + 2)

InitLines ==
    /\ texts \in {<< <<Run("Regular", t)>> >> : t \in LineTexts}
    /\ paragraphs = <<>>
    /\ \E w \in PageWidths :
         ctx = FirstCtx([DefaultPageProperties EXCEPT !.width = w],
                        DefaultScroll * Unit, DefaultScale * Unit)
    /\ pages = <<ctx.page_rect>>
    /\ cursor = NoCursor
    /\ pc = "input"
    /\ panicked = "none"
    /\ op = NoOp
    /\ saved = NothingSaved
    /\ edits = 0
    /\ doc_scale = DefaultScale * Unit
    /\ fonts = Styles

\* new_document_draw of a paragraph justified as j, and the clear_document
\* that update_document starts with
LoadLines(j) ==
    /\ pc = "input"
    /\ LET loaded == LoadParagraphs(texts, 1, <<>>).paragraphs
       IN paragraphs' = clear_document(
                [i \in 1..Len(loaded) |-> [loaded[i] EXCEPT !.justify = j]])
    /\ pc' = "unbroken"
    /\ op' = [NoOp EXCEPT !.name = "new_document_draw"]
    /\ UNCHANGED <<fonts, doc_scale, texts, cursor, pages, ctx, panicked, saved, edits>>

\* paragraph.lines = get_lines(&paragraph.words, &ctx, DEFAULT_VERTICAL_SPACING)
BreakLines ==
    /\ pc = "unbroken"
    /\ paragraphs' = [paragraphs EXCEPT ![1].lines =
                        get_lines(paragraphs[1].words, ctx,
                                  DEFAULT_VERTICAL_SPACING)]
    /\ pc' = "lines"
    /\ op' = [NoOp EXCEPT !.name = "get_lines"]
    /\ UNCHANGED <<fonts, doc_scale, texts, cursor, pages, ctx, panicked, saved, edits>>

\* the loop of update_document over the lines of the paragraph
PlaceLines ==
    /\ pc = "lines"
    /\ LET r == LayoutLines(paragraphs[1], paragraphs[1].lines, 1,
                            [ctx |-> ctx, pages |-> pages], <<>>)
       IN /\ saved' = [stage |-> "placed", lines |-> r.placed]
          /\ ctx' = r.ctx
          /\ pages' = r.pages
    /\ pc' = "placed"
    /\ op' = [NoOp EXCEPT !.name = "update_line"]
    /\ UNCHANGED <<fonts, doc_scale, texts, paragraphs, cursor, panicked, edits>>

\* get_cursor_target with the cursor on line l at char_idx c
Locate(l, c) ==
    /\ pc = "placed"
    /\ InRange(l, Len(paragraphs[1].lines))
    /\ cursor' = [par_idx |-> 0, line_idx |-> l, char_idx |-> c]
    /\ op' = [NoOp EXCEPT !.name = "get_cursor_target",
                          !.target = get_cursor_target(paragraphs, cursor')]
    /\ UNCHANGED <<fonts, doc_scale, texts, paragraphs, pages, ctx, pc, panicked, saved, edits>>

NextLines ==
    \/ \E j \in Justifications : LoadLines(j)
    \/ BreakLines
    \/ PlaceLines
    \/ \E l \in LineIdxs, c \in CharIdxs : Locate(l, c)

SpecLines == InitLines /\ [][NextLines]_vars

----------------------------------------------------------------------------
(* Specification of the paginator: one relayout pass, as a sequence of     *)
(* vertical advance requests on pages of several sizes and scales.         *)

\* the scales tried, in tenths: 0.1, 0.5, 1.0 and 2.0
Scales == {1, 5, 10, 20}

\* the page properties tried: the default page, a page whose paddings are
\* wider than half of it, a tall page
PagePropertiesSet ==
    { DefaultPageProperties,
      [DefaultPageProperties EXCEPT !.paddings = 60],
      [DefaultPageProperties EXCEPT !.width = 50, !.height = 200] }

\* the scroll offsets tried, in pixels
Scrolls == {0, DefaultScroll}

\* the vertical advances requested, in tenths of a pixel
Advances == {0, 200, 1500}

InitPages ==
    /\ texts = <<>>
    /\ paragraphs = <<>>
    /\ cursor = NoCursor
    /\ ctx \in {FirstCtx(pp, scroll * Unit, scale) :
                    pp \in PagePropertiesSet, scroll \in Scrolls,
                    scale \in Scales}
    /\ pages = <<ctx.page_rect>>
    /\ pc = "pass"
    /\ panicked = "none"
    /\ op = NoOp
    /\ saved = NothingSaved
    /\ edits = 0
    /\ doc_scale = ctx.scale
    /\ fonts = Styles

\* self.vertical_offset_and_push(&mut ctx, &mut document_draw.pages, delta)
VerticalAdvance(delta) ==
    /\ pc = "pass"
    /\ edits < MaxAdvances
    /\ LET r == vertical_offset_and_push(ctx, pages, delta)
       IN ctx' = r.ctx /\ pages' = r.pages
    /\ edits' = edits + 1
    /\ op' = [NoOp EXCEPT !.name = "vertical_offset_and_push", !.arg = delta]
    /\ UNCHANGED <<fonts, doc_scale, texts, paragraphs, cursor, pc, panicked, saved>>

NextPages == \E delta \in Advances : VerticalAdvance(delta)

SpecPages == InitPages /\ [][NextPages]_vars

----------------------------------------------------------------------------
(* Specification of the navigation: a document is loaded and laid out, and *)
(* the cursor is moved by one character or one line at a time.             *)

\* the documents navigated: those of the editor, one paragraph of two
\* lines, and two paragraphs, the last of two lines
NavDocuments ==
    Documents \cup
    { << <<Run("Regular", <<"a", "x", " ", "x", "a", " ">>),
           Run("Bold", <<"a">>)>> >>,
      << <<Run("Bold", <<"x">>)>>,
         <<Run("Regular", <<"a", "x", " ", "x", "a", " ">>),
           Run("Bold", <<"a">>)>> >> }

\* the h/l and j/k keys: ChangeCharIdx(-1 / 1), ChangeLineIdx(1 / -1)
NavDeltas == {-1, 1}

InitNav ==
    /\ texts \in NavDocuments
    /\ paragraphs = <<>>
    /\ cursor = NoCursor
    /\ pages = <<>>
    /\ ctx = NoCtx
    /\ pc = "input"
    /\ panicked = "none"
    /\ op = NoOp
    /\ saved = NothingSaved
    /\ edits = 0
    /\ doc_scale = DefaultScale * Unit
    /\ fonts = Styles

NextNav ==
    \/ NewDocumentDraw
    \/ UpdateDocument
    \/ \E d \in NavDeltas : ChangeCharIdx(d)
    \/ \E d \in NavDeltas : ChangeLineIdx(d)

SpecNav == InitNav /\ [][NextNav]_vars

----------------------------------------------------------------------------
(* Specification of the zoom: a document is loaded and laid out, scale     *)
(* commands change the zoom factor, and the document is laid out again.    *)

\* the zoom factors asked for by NewScale, in tenths (4.0 is clamped)
NewScaleArgs == {5, 10, 20, 40}

\* the ratios asked for by RatioScale, in tenths (0.1 takes the zoom factor
\* to or below the lower bound)
RatioScaleArgs == {1, 20, 40}

ScaleNames == {"NewScale", "RatioScale"}

\* a scale command that takes the zoom factor to new_scale and hands the
\* ratio num / den to scale_by_ratio; the ratio handed is kept in op.result
ScaleTo(name, arg, new_scale, num, den) ==
    /\ Ready
    /\ edits < MaxScales
    /\ paragraphs' = scale_by_ratio(paragraphs, num, den)
    /\ doc_scale' = new_scale
    /\ edits' = edits + 1
    /\ op' = [NoOp EXCEPT !.name = name, !.arg = arg, !.result = <<num, den>>]
    /\ UNCHANGED <<fonts, texts, cursor, pages, ctx, pc, panicked, saved>>

\* DocumentCommand::NewScale(s): ratio = scale / document_draw.scale
NewScale(s) ==
    LET scale == ClampScale(s)
    IN ScaleTo("NewScale", s, scale, scale, doc_scale)

\* RatioScale handing the ratio it was asked for to scale_by_ratio
RatioScaleAsAsked(ratio) ==
    ScaleTo("RatioScale", ratio, ClampScale((doc_scale * ratio) \div Unit),
            ratio, Unit)

\* DocumentCommand::RatioScale(ratio): the ratio handed on is
\* document_draw.scale / prev, computed after the clamp
RatioScale(ratio) ==
    LET prev == doc_scale
        scale == ClampScale((doc_scale * ratio) \div Unit)
    IN ScaleTo("RatioScale", ratio, scale, scale, prev)

\* the update_document that follows a scale command (every edit command
\* ends with one)
UpdateScaled ==
    /\ pc = "laid"
    /\ panicked = "none"
    /\ op.name \in ScaleNames
    /\ LET r == Relayout(paragraphs)
       IN /\ paragraphs' = r.paragraphs
          /\ pages' = r.pages
          /\ ctx' = r.ctx
    /\ op' = [NoOp EXCEPT !.name = "update_document"]
    /\ UNCHANGED <<fonts, doc_scale, texts, cursor, pc, panicked, saved, edits>>

NextScale ==
    \/ NewDocumentDraw
    \/ UpdateDocument
    \/ \E s \in NewScaleArgs : NewScale(s)
    \/ \E ratio \in RatioScaleArgs : RatioScale(ratio)
    \/ UpdateScaled

SpecScale == Init /\ [][NextScale]_vars

----------------------------------------------------------------------------
(* Specification of the text direction of the section properties: the      *)
(* w:textDirection values of the files opened are parsed (FromStr), and    *)
(* the directions held are printed again on save (Display).                *)

\* the files opened one after another (model bound)
MaxFiles == 3

\* enum TextDirection
Directions == {"LeftToRightTopToBottom", "LeftToRightBottomToTop",
               "RightToLeftTopToBottom", "RightToLeftBottomToTop"}

\* the four tokens of Display and FromStr
DirectionTokens == {"lrTb", "lrBt", "rlTb", "rlBt"}

\* impl Display for TextDirection
to_string(d) ==
    CASE d = "LeftToRightTopToBottom" -> "lrTb"
      [] d = "LeftToRightBottomToTop" -> "lrBt"
      [] d = "RightToLeftTopToBottom" -> "rlTb"
      [] d = "RightToLeftBottomToTop" -> "rlBt"

\* impl FromStr for TextDirection: "Err" for the Err of an invalid token
from_str(s) ==
    CASE s = "lrTb" -> "LeftToRightBottomToTop"
      [] s = "lrBt" -> "LeftToRightTopToBottom"
      [] s = "rlTb" -> "RightToLeftBottomToTop"
      [] s = "rlBt" -> "RightToLeftTopToBottom"
      [] OTHER -> "Err"

\* parse_text_direction: .ok().unwrap_or_default()
parse_text_direction(s) ==
    IF from_str(s) = "Err" THEN "LeftToRightTopToBottom" ELSE from_str(s)

\* the attribute values read: the four tokens and one the parser does not know
InitDirection ==
    /\ texts \in SeqsUpTo(DirectionTokens \cup {"tbRl"}, MaxFiles)
    /\ paragraphs = <<>>
    /\ cursor = NoCursor
    /\ pages = <<>>
    /\ ctx = NoCtx
    /\ pc = "input"
    /\ panicked = "none"
    /\ op = NoOp
    /\ saved = NothingSaved
    /\ edits = 0
    /\ doc_scale = DefaultScale * Unit
    /\ fonts = Styles

\* text_direction: parse_text_direction(root_element), for every file
OpenDirection ==
    /\ pc = "input"
    /\ pc' = "parsed"
    /\ op' = [NoOp EXCEPT !.name = "parse_text_direction",
                          !.result = [i \in 1..Len(texts) |->
                                         parse_text_direction(texts[i])]]
    /\ UNCHANGED <<fonts, doc_scale, texts, paragraphs, cursor, pages, ctx,
                   panicked, saved, edits>>

\* .with_attr("w:val", sect_properties.text_direction.to_string())
SaveDirection ==
    /\ pc = "parsed"
    /\ pc' = "printed"
    /\ saved' = [stage |-> "parsed", directions |-> op.result]
    /\ op' = [NoOp EXCEPT !.name = "to_string",
                          !.result = [i \in 1..Len(op.result) |->
                                         to_string(op.result[i])]]
    /\ UNCHANGED <<fonts, doc_scale, texts, paragraphs, cursor, pages, ctx,
                   panicked, edits>>

NextDirection == OpenDirection \/ SaveDirection

SpecDirection == InitDirection /\ [][NextDirection]_vars

----------------------------------------------------------------------------
(* Specification of the keyboard: key presses drive the mode and the       *)
(* console input of the application state.  pc holds State.mode and texts  *)
(* holds State.console_input.                                              *)

\* longest console input typed, in characters (model bound)
MaxInput == 5

\* the key events: a character key with its text (the colon, the letters
\* of view, open and save, a blank and a 2-byte letter), and Escape,
\* Backspace and Enter; the text of Enter is "\r" or absent, as the platform
\* reports it
KeyEvents ==
    {[code |-> c, text |-> c] :
        c \in {":", "v", "i", "e", "w", "o", "p", "n", "s", "a", " ", "E"}}
    \cup {[code |-> "Escape", text |-> "None"],
          [code |-> "Backspace", text |-> "None"],
          [code |-> "Enter", text |-> "None"],
          [code |-> "Enter", text |-> "\r"]}

RECURSIVE trim(_)
\* str::trim: the text without its leading and trailing whitespace
trim(t) ==
    IF t = <<>> THEN t
    ELSE IF Head(t) \in {" ", "\r"} THEN trim(Tail(t))
    ELSE IF Last(t) \in {" ", "\r"} THEN trim(Front(t))
    ELSE t

\* process_command_enter for the Enter key: [panic, mode, console_input,
\* started]; &command.trim()[1..5] panics unless 1..5 is a slice
process_command_enter(console_input) ==
    LET command == trim(console_input)
    IN IF ~SliceOk(command, 1, 5)
       THEN [panic |-> "slice", mode |-> "Normal", console_input |-> <<>>,
             started |-> <<>>]
       ELSE LET name == Slice(command, 1, 5)
            IN [panic |-> "none",
                mode |-> IF name = <<"v", "i", "e", "w">> THEN "View"
                         ELSE "Normal",
                console_input |-> <<>>,
                started |-> IF name = <<"v", "i", "e", "w">> THEN <<"view">>
                            ELSE IF name = <<"o", "p", "e", "n">>
                            THEN <<"open">>
                            ELSE IF name = <<"s", "a", "v", "e">>
                            THEN <<"save">>
                            ELSE <<>>]

\* process_command_input: Backspace pops while more than one byte is left,
\* any other key appends its text
process_command_input(console_input, event) ==
    IF event.code = "Backspace"
    THEN (IF ByteLen(console_input) > 1 THEN Front(console_input)
          ELSE console_input)
    ELSE IF event.text # "None" THEN Append(console_input, event.text)
    ELSE console_input

\* State::default: Mode::View, an empty console input
InitConsole ==
    /\ texts = <<>>
    /\ paragraphs = <<>>
    /\ cursor = NoCursor
    /\ pages = <<>>
    /\ ctx = NoCtx
    /\ pc = "View"
    /\ panicked = "none"
    /\ op = NoOp
    /\ saved = NothingSaved
    /\ edits = 0
    /\ doc_scale = DefaultScale * Unit
    /\ fonts = Styles

\* App::keyboard_input for a key pressed: [panic, mode, console_input,
\* started], started being the action started or the command pushed
keyboard_input(mode, console_input, event) ==
    LET same == [panic |-> "none", mode |-> mode,
                 console_input |-> console_input, started |-> <<>>]
        escaped == [same EXCEPT !.mode = "Normal", !.console_input = <<>>]
    IN IF mode # "Normal" /\ event.code = "Escape" THEN escaped
       ELSE CASE mode = "View" -> same
              [] mode = "Normal" ->
                    IF event.code = "Backspace"
                    THEN [same EXCEPT !.started = <<"Remove">>]
                    ELSE IF event.code = "i" THEN [same EXCEPT !.mode = "Edit"]
                    ELSE IF event.text = ":"
                    THEN [same EXCEPT !.mode = "CommandInput",
                                      !.console_input = <<":">>]
                    ELSE same
              [] mode = "Edit" ->
                    IF event.code = "Backspace"
                    THEN [same EXCEPT !.started = <<"Remove">>]
                    ELSE IF event.text = "None" THEN same
                    ELSE IF trim(<<event.text>>) # <<>>
                    THEN [same EXCEPT !.started = <<"Add">>]
                    ELSE [same EXCEPT !.started = <<"AddSpace">>]
              [] mode = "CommandInput" ->
                    LET r == IF event.code = "Enter"
                             THEN process_command_enter(console_input)
                             ELSE same
                    IN IF r.panic # "none" THEN r
                       ELSE [r EXCEPT !.console_input =
                                process_command_input(@, event)]

\* a key is pressed
KeyboardInput(event) ==
    /\ panicked = "none"
    /\ Len(texts) < MaxInput \/ event.code # event.text
    /\ LET r == keyboard_input(pc, texts, event)
       IN /\ panicked' = r.panic
          /\ pc' = r.mode
          /\ texts' = r.console_input
          /\ op' = [NoOp EXCEPT !.name = event.code, !.arg = pc,
                                !.result = r.started]
    /\ UNCHANGED <<fonts, doc_scale, paragraphs, cursor, pages, ctx, saved,
                   edits>>

NextConsole == \E event \in KeyEvents : KeyboardInput(event)

SpecConsole == InitConsole /\ [][NextConsole]_vars

----------------------------------------------------------------------------
(* Claims *)

\* C1: every Word produced by get_words has sorted, contiguous,
\* non-overlapping style segments whose union is [0, len(word.text)).
C1_SegmentCoverage ==
    pc = "words" => \A w \in AllWords : Coverage(w)

EditNames == {"Add", "Remove", "AddSpace"}
NavNames == {"ChangeCharIdx", "ChangeLineIdx", "change_par"}

\* C2: after any sequence of Insert, Remove and InsertSpace that return
\* normally, every Word of the edited paragraph still has sorted, contiguous,
\* non-overlapping segments covering exactly [0, len(word.text)).
C2_EditsKeepCoverage ==
    op.name \in EditNames =>
        \A i \in 1..Len(op.edited) : Coverage(op.edited[i])

\* C3: after any Edit Engine operation (Insert, Remove, InsertSpace, at any
\* cursor target) no Word contains two adjacent style segments with equal
\* style properties.
C3_EditsKeepMerged ==
    op.name \in EditNames =>
        /\ \A i \in 1..Len(op.edited) : Merged(op.edited[i])
        /\ \A w \in AllWords : Merged(w)

\* a Remove at a gap joined two words whose touching segments have the same
\* style, and the joined word has one segment
C3_Witness ==
    /\ op.name = "Remove"
    /\ op.target.kind = "WhiteSpace"
    /\ panicked = "none"
    /\ \E i \in 1..Len(op.edited) :
          /\ Len(op.edited[i].word) = 4
          /\ Len(op.edited[i].glyphs_views) = 1

\* the ranges of the lines, in order, make up [0, word_count)
Partition(lines, word_count) ==
    /\ lines # <<>>
    /\ lines[1].range.start = 0
    /\ Last(lines).range.end = word_count
    /\ \A i \in 1..Len(lines) : lines[i].range.start <= lines[i].range.end
    /\ \A i \in 1..Len(lines) - 1 :
          lines[i + 1].range.start = lines[i].range.end

\* C4: the Lines returned by get_lines partition the word indices: the first
\* range starts at 0, each following range starts where the previous one
\* ends, and the last range ends at word_count.
C4_LinesPartition ==
    pc \in {"lines", "placed"} =>
        Partition(paragraphs[1].lines, Len(paragraphs[1].words))

\* get_lines returned several lines, one of them with two words or more
C4_Witness ==
    /\ pc = "lines"
    /\ op.name = "get_lines"
    /\ Len(paragraphs[1].lines) >= 2
    /\ \E i \in 1..Len(paragraphs[1].lines) :
          paragraphs[1].lines[i].range.end
              - paragraphs[1].lines[i].range.start >= 2

\* C5: Insert of the single grapheme "x" followed by Remove restores the
\* affected word's text and the byte ranges and styles of all its style
\* segments exactly to their values before the Insert.
C5_InsertRemoveRoundTrip ==
    (saved.stage = "removed" /\ op.name = "Remove" /\ panicked = "none") =>
        /\ InRange(saved.par, Len(paragraphs))
        /\ InRange(saved.word, Len(paragraphs[saved.par + 1].words))
        /\ clone_without_primitive(
              paragraphs[saved.par + 1].words[saved.word + 1]) = saved.before

Abs(x) == IF x < 0 THEN -x ELSE x

\* C6: for a line justified as Width with n words, the spacing computed by
\* get_line_vertical_metrics satisfies
\* min_width + (n-1) * spacing = content_width, up to rounding (a tenth of a
\* pixel here); the spacing is the quotient num / den.
C6_WidthJustifyFills ==
    (pc = "placed" /\ paragraphs[1].justify = "Width") =>
        \A i \in 1..Len(saved.lines) :
            LET line == paragraphs[1].lines[i]
                n == line.range.end - line.range.start
                m == saved.lines[i].metrics
            IN n >= 1 =>
                  Abs(m.den * line.min_width + (n - 1) * m.num
                        - m.den * saved.lines[i].content_width) <= m.den

\* C7: during a relayout pass, for any sequence of vertical advance
\* requests, the vertical offsets of the pages in the page list are strictly
\* increasing in list order.
C7_PageOffsetsIncrease ==
    pc = "pass" =>
        \A i \in 1..Len(pages) - 1 : pages[i].top < pages[i + 1].top

\* two pages were appended by vertical advances
C7_Witness ==
    /\ pc = "pass"
    /\ op.name = "vertical_offset_and_push"
    /\ Len(pages) >= 3

\* C8: no document command fails with an out-of-range paragraph, line or
\* word index or an invalid string slice, for any document and any sequence
\* of commands.
C8_NoPanic == panicked = "none"

RECURSIVE ReferenceUnits(_, _, _)
\* the unit sequence Word0, Gap0, ..., Word(n-1), LineEnd of a line, from
\* word k on: one WordTarget per grapheme of a word, one unit per gap, one
\* for the line end
ReferenceUnits(ws, line, k) ==
    LET n == line.range.end - line.range.start
    IN IF k >= n THEN <<>>
       ELSE [j \in 1..Len(ws[line.range.start + k + 1].word) |->
                WordTarget(k, j - 1)]
            \o <<IF k < n - 1 THEN WhiteSpace(k, k + 1) ELSE LineEnd(k)>>
            \o ReferenceUnits(ws, line, k + 1)

\* the target the reference walk gives char_index c
ReferenceTarget(ws, line, c) ==
    LET units == ReferenceUnits(ws, line, 0)
    IN IF c < Len(units) THEN units[c + 1] ELSE Nothing

\* C9: get_cursor_target agrees with the reference walk over the unit
\* sequence Word0, Gap0, ..., Word(n-1), LineEnd: WordTarget inside a word,
\* WhiteSpace on a gap, LineEnd on the final unit, Nothing when the line has
\* no words.
C9_CursorTargetAgrees ==
    op.name = "get_cursor_target" =>
        op.target = ReferenceTarget(paragraphs[1].words,
                                    paragraphs[1].lines[cursor.line_idx + 1],
                                    cursor.char_idx)

\* the line holds two words of two graphemes, char_idx is 2, and the target
\* is the gap between them
C9_Witness ==
    /\ op.name = "get_cursor_target"
    /\ cursor.char_idx = 2
    /\ LET line == paragraphs[1].lines[cursor.line_idx + 1]
       IN /\ line.range.end - line.range.start = 2
          /\ Len(paragraphs[1].words[line.range.start + 1].word) = 2
          /\ Len(paragraphs[1].words[line.range.start + 2].word) = 2
    /\ op.target = WhiteSpace(0, 1)

\* C10: on a document with at least one paragraph, after any change_char,
\* change_line or change_par call the cursor's par_idx is within
\* [0, paragraph_count - 1].
C10_ParIdxInRange ==
    (op.name \in NavNames /\ panicked = "none" /\ Len(paragraphs) >= 1) =>
        InRange(cursor.par_idx, Len(paragraphs))

\* change_par returned with the cursor on the last of two paragraphs
C10_Witness ==
    /\ op.name = "change_par"
    /\ panicked = "none"
    /\ Len(paragraphs) = 2
    /\ cursor.par_idx = 1

\* the words of the cursor's paragraph before an edit step, without their
\* primitives
BeforeWords ==
    IF InRange(cursor.par_idx, Len(paragraphs))
    THEN LET ws == paragraphs[cursor.par_idx + 1].words
         IN [i \in 1..Len(ws) |-> clone_without_primitive(ws[i])]
    ELSE <<>>

\* the first word index of the cursor's line before an edit step
LineOffset ==
    paragraphs[cursor.par_idx + 1].lines[cursor.line_idx + 1].range.start

\* C11: Insert(text) at a WhiteSpace{prev, next} target prepends text to the
\* next word and leaves prev and every other word unchanged; at a LineEnd
\* target it appends text to the last word of the line and extends only that
\* word's trailing segment by len(text).
C11_InsertAtGapOrLineEnd ==
    [][(op'.name = "Add" /\ op'.target.kind \in {"WhiteSpace", "LineEnd"}) =>
        LET before == BeforeWords
            after == op'.edited
            data == op'.arg
            k == LineOffset + (IF op'.target.kind = "WhiteSpace"
                               THEN op'.target.next ELSE op'.target.end)
        IN /\ Len(after) = Len(before)
           /\ InRange(k, Len(before))
           /\ \A i \in 1..Len(before) : i # k + 1 => after[i] = before[i]
           /\ IF op'.target.kind = "WhiteSpace"
              THEN after[k + 1].word = data \o before[k + 1].word
              ELSE LET b == before[k + 1].glyphs_views
                       a == after[k + 1].glyphs_views
                   IN /\ after[k + 1].word = before[k + 1].word \o data
                      /\ Len(a) = Len(b)
                      /\ \A j \in 1..Len(b) - 1 : a[j] = b[j]
                      /\ b # <<>> =>
                            Last(a) = [Last(b) EXCEPT
                                          !.end = @ + ByteLen(data)]
      ]_vars

\* an Add on a gap returned, and the word after the gap now starts with the
\* typed grapheme
C11_Witness ==
    /\ op.name = "Add"
    /\ op.target.kind = "WhiteSpace"
    /\ panicked = "none"
    /\ op.result # <<>>
    /\ InRange(op.result[1][2], Len(op.edited))
    /\ op.edited[op.result[1][2] + 1].word[1] = "x"
    /\ Len(op.edited[op.result[1][2] + 1].word) >= 2

\* a segment whose bounds after the byte offset `start` are reduced by len
ShrunkSegment(gv, start, len) ==
    [gv EXCEPT !.start = IF @ > start THEN @ - len ELSE @,
               !.end = IF @ > start THEN @ - len ELSE @]

\* C12: Remove() at a WordTarget deletes the whole word from the paragraph's
\* word list if the word consists of exactly one grapheme (whatever its byte
\* length); otherwise it deletes exactly the grapheme at the target's index,
\* the word stays in the list, and the segment boundaries after the deleted
\* grapheme are reduced by its byte length (segments of equal style that
\* become neighbours being merged).
C12_RemoveInWord ==
    [][(op'.name = "Remove" /\ op'.target.kind = "WordTarget") =>
        LET before == BeforeWords
            after == op'.edited
            k == LineOffset + op'.target.word
            idx == op'.target.idx
            w == before[k + 1]
            start == ByteOff(w.word, idx)
            len == BLen(w.word[idx + 1])
        IN IF Len(w.word) = 1
           THEN after = RemoveAt(before, k)
           ELSE /\ Len(after) = Len(before)
                /\ \A i \in 1..Len(before) : i # k + 1 => after[i] = before[i]
                /\ after[k + 1].word =
                      SubSeq(w.word, 1, idx) \o SubSeq(w.word, idx + 2,
                                                       Len(w.word))
                /\ after[k + 1].glyphs_views =
                      clear_glyphs(
                        [word |-> after[k + 1].word,
                         glyphs_views |->
                            [j \in 1..Len(w.glyphs_views) |->
                                ShrunkSegment(w.glyphs_views[j], start, len)]]
                      ).glyphs_views
      ]_vars

\* the cursor is on an existing line of an existing paragraph
OnLine == pc = "laid" /\ CursorIndexOk(paragraphs, cursor)

\* C13, backwards: change_char(-1) with char_idx = 0 on a line that is not
\* the first of its paragraph moves the cursor to the previous line, at the
\* char_idx whose cursor target is LineEnd.
C13_Back ==
    (ChangeCharIdx(-1) /\ OnLine /\ cursor.char_idx = 0 /\ cursor.line_idx > 0)
        => /\ cursor'.par_idx = cursor.par_idx
           /\ cursor'.line_idx = cursor.line_idx - 1
           /\ get_cursor_target(paragraphs, cursor').kind = "LineEnd"

\* C13, forwards: change_char(+1) at the LineEnd position of a line that is
\* not the last of its paragraph moves the cursor to the next line with
\* char_idx = 0.
C13_Forth ==
    (/\ ChangeCharIdx(1)
     /\ OnLine
     /\ get_cursor_target(paragraphs, cursor).kind = "LineEnd"
     /\ cursor.line_idx < Len(paragraphs[cursor.par_idx + 1].lines) - 1)
        => cursor' = [cursor EXCEPT !.line_idx = @ + 1, !.char_idx = 0]

\* C13: change_char wraps to the end of the previous line and to the start
\* of the next line.
C13_CharWrapsToAdjacentLine == [][C13_Back /\ C13_Forth]_vars

\* C14, backwards: change_line(-1) from line 0 of paragraph p > 0 moves the
\* cursor to paragraph p-1, on that paragraph's last line, and leaves
\* char_idx as it was.
C14_Back ==
    (ChangeLineIdx(-1) /\ OnLine /\ cursor.line_idx = 0 /\ cursor.par_idx > 0)
        => /\ cursor'.par_idx = cursor.par_idx - 1
           /\ cursor'.line_idx = Len(paragraphs[cursor.par_idx].lines) - 1
           /\ cursor'.char_idx = cursor.char_idx

\* C14, forwards: change_line(+1) from the last line of paragraph
\* p < paragraph_count - 1 moves the cursor to line 0 of paragraph p+1.
C14_Forth ==
    (/\ ChangeLineIdx(1)
     /\ OnLine
     /\ cursor.line_idx = Len(paragraphs[cursor.par_idx + 1].lines) - 1
     /\ cursor.par_idx < Len(paragraphs) - 1)
        => /\ cursor'.par_idx = cursor.par_idx + 1
           /\ cursor'.line_idx = 0

\* C14: change_line wraps to the last line of the previous paragraph and to
\* the first line of the next paragraph.
C14_LineWrapsToAdjacentParagraph == [][C14_Back /\ C14_Forth]_vars

\* a segment whose bounds at or after the byte offset o are larger by len
GrownSegment(gv, o, len) ==
    [gv EXCEPT !.start = IF @ >= o THEN @ + len ELSE @,
               !.end = IF @ >= o THEN @ + len ELSE @]

\* C15: Insert(text) at a WordTarget splices text into the word at one byte
\* offset o on a grapheme boundary, and afterwards every style-segment
\* boundary that was at or after o is larger by len(text) while every
\* boundary before o is unchanged.
C15_InsertInWordShifts ==
    [][(op'.name = "Add" /\ op'.target.kind = "WordTarget") =>
        LET k == LineOffset + op'.target.word
            w == BeforeWords[k + 1]
            after == op'.edited[k + 1]
            data == op'.arg
        IN \E o \in 0..ByteLen(w.word) :
              /\ IsBoundary(w.word, o)
              /\ after.word = Slice(w.word, 0, o) \o data
                                \o Slice(w.word, o, ByteLen(w.word))
              /\ after.glyphs_views =
                    [j \in 1..Len(w.glyphs_views) |->
                        GrownSegment(w.glyphs_views[j], o, ByteLen(data))]
      ]_vars

\* C16: Remove() at a WhiteSpace{prev, next} target decreases the
\* paragraph's word count by exactly one: prev.text becomes old prev.text ++
\* old next.text, next is deleted from the word list, next's segments are
\* appended to prev with both bounds offset by prev's previous byte length
\* (neighbours of equal style being merged), and all other words keep their
\* text, segments and relative order.
C16_RemoveAtGapMerges ==
    [][(op'.name = "Remove" /\ op'.target.kind = "WhiteSpace") =>
        LET before == BeforeWords
            p == LineOffset + op'.target.prev
            n == LineOffset + op'.target.next
            prev == before[p + 1]
            next == before[n + 1]
            len == ByteLen(prev.word)
            moved == [j \in 1..Len(next.glyphs_views) |->
                        GlyphsView(next.glyphs_views[j].start + len,
                                   next.glyphs_views[j].end + len,
                                   next.glyphs_views[j].properties)]
            joined == clear_glyphs(
                        [word |-> prev.word \o next.word,
                         glyphs_views |-> prev.glyphs_views \o moved])
        IN /\ Len(op'.edited) = Len(before) - 1
           /\ op'.edited = RemoveAt([before EXCEPT ![p + 1] = joined], n)
      ]_vars

\* C17: InsertSpace() at a WordTarget on the word at paragraph index k, on
\* any line of the paragraph, replaces that word by two adjacent words left,
\* right at paragraph indices k and k+1 with left.text ++ right.text equal to
\* the old text; all other words keep their relative order.
C17_InsertSpaceSplitsInPlace ==
    [][(op'.name = "AddSpace" /\ op'.target.kind = "WordTarget") =>
        LET before == BeforeWords
            after == op'.edited
            k == LineOffset + op'.target.word
        IN /\ Len(after) = Len(before) + 1
           /\ after[k + 1].word \o after[k + 2].word = before[k + 1].word
           /\ \A i \in 1..k : after[i] = before[i]
           /\ \A i \in (k + 2)..Len(before) : after[i + 1] = before[i]
      ]_vars

RECURSIVE DropIdx(_, _, _)
\* the sequence s from position i on, without the positions in S
DropIdx(s, S, i) ==
    IF i > Len(s) THEN <<>>
    ELSE (IF i \in S THEN <<>> ELSE <<s[i]>>) \o DropIdx(s, S, i + 1)

\* C18: for each of Insert, Remove and InsertSpace at any cursor target on
\* any line, the returned list consists of exactly the (paragraph_index,
\* word_index) pairs, valid in the word list as it is after the operation,
\* of the words that the operation created or whose text or segments it
\* changed; every word not named in the list is unchanged by the operation.
C18_ResultNamesChangedWords ==
    [][(op'.name \in EditNames /\ OnLine) =>
        LET before == BeforeWords
            after == op'.edited
            result == op'.result
            named == {result[j][2] + 1 : j \in 1..Len(result)}
            rest == DropIdx(after, named, 1)
        IN /\ \A j \in 1..Len(result) :
                /\ result[j][1] = cursor.par_idx
                /\ InRange(result[j][2], Len(after))
           /\ \E D \in SUBSET (1..Len(before)) : DropIdx(before, D, 1) = rest
           /\ Len(after) = Len(before) =>
                \A i \in 1..Len(after) :
                    (i \in named) <=> (after[i] # before[i])
      ]_vars

\* C19: for every non-empty list of words and every content width (a first
\* word wider than the content width included), get_lines never returns a
\* Line whose word range is empty.
C19_NoEmptyLine ==
    (pc \in {"lines", "placed"} /\ Len(paragraphs) >= 1
        /\ paragraphs[1].words # <<>>) =>
        \A i \in 1..Len(paragraphs[1].lines) :
            paragraphs[1].lines[i].range.start
                < paragraphs[1].lines[i].range.end

\* the four cached metrics of a Line
LineMetrics(line) ==
    <<line.min_width, line.widht_with_spacing, line.height, line.last_scale>>

\* C20: a scale command that changes the zoom by ratio r (the new zoom
\* factor over the old one) applies the factor r to each existing glyph
\* primitive's scale and to every cached Line metric (min_width,
\* width_with_spacing, height, last_scale): each afterwards equals r times
\* its previous value.
C20_ScaleMultiplies ==
    [][(op'.name \in ScaleNames) =>
        /\ Len(paragraphs') = Len(paragraphs)
        /\ \A p \in 1..Len(paragraphs) :
            /\ \A k \in 1..Len(paragraphs[p].words) :
                \A j \in 1..Len(paragraphs[p].words[k].glyphs_views) :
                    paragraphs'[p].words[k].glyphs_views[j].scale * doc_scale
                        = paragraphs[p].words[k].glyphs_views[j].scale
                            * doc_scale'
            /\ \A l \in 1..Len(paragraphs[p].lines) :
                \A f \in 1..4 :
                    LineMetrics(paragraphs'[p].lines[l])[f] * doc_scale
                        = LineMetrics(paragraphs[p].lines[l])[f] * doc_scale'
      ]_vars

----------------------------------------------------------------------------
\* the segments of the loaded words that have a glyph run
Materialized(gv) == gv.glyphs > 0

\* C21: when the font of a style segment cannot be resolved, building the
\* document layout still succeeds and only the segments of that style are
\* left without a glyph run: every paragraph is loaded and every segment
\* whose font resolves is materialized.
C21_FontFailureSkipsSegment ==
    (op.name = "new_document_draw" /\ panicked = "none") =>
        /\ pc = "new"
        /\ Len(paragraphs) = Len(texts)
        /\ \A p \in 1..Len(paragraphs) :
             \A w \in 1..Len(paragraphs[p].words) :
               \A g \in 1..Len(paragraphs[p].words[w].glyphs_views) :
                 LET gv == paragraphs[p].words[w].glyphs_views[g]
                 IN (gv.properties \in fonts /\ gv.end > gv.start)
                        => Materialized(gv)

----------------------------------------------------------------------------
RECURSIVE JoinWords(_, _)
\* the texts of the words from number i on, joined by single blanks
JoinWords(ws, i) ==
    IF i > Len(ws) THEN <<>>
    ELSE ws[i].word \o (IF i < Len(ws) THEN <<" ">> ELSE <<>>)
         \o JoinWords(ws, i + 1)

RECURSIVE RunsText(_, _)
\* the concatenation of the texts of the runs from number i on
RunsText(runs, i) ==
    IF i > Len(runs) THEN <<>> ELSE runs[i].text \o RunsText(runs, i + 1)

\* every word of the paragraph satisfies the segment coverage invariant
ParagraphCovered(par) == \A i \in 1..Len(par.words) : Coverage(par.words[i])

\* the runs emitted for a paragraph carry its text and are coalesced
RunsMirror(par, runs) ==
    /\ RunsText(runs, 1) = JoinWords(par.words, 1)
    /\ \A i \in 1..Len(runs) - 1 : runs[i].properties # runs[i + 1].properties

\* C22: for every paragraph whose words satisfy the segment coverage
\* invariant, the runs emitted by get_word_xml_document for that paragraph
\* have texts whose concatenation equals the paragraph's word texts joined
\* by single spaces, and no two consecutive emitted runs have equal style
\* properties.
C22_SavedRunsMirrorWords ==
    op.name = "Save" =>
        \A p \in 1..Len(paragraphs) :
            ParagraphCovered(paragraphs[p]) =>
                /\ p <= Len(op.result)
                /\ RunsMirror(paragraphs[p], op.result[p])

----------------------------------------------------------------------------
\* the height left in a content rectangle, from its top down to its bottom
RemainingHeight(r) == r.bottom - r.top

\* the rectangle of a page inset by the paddings on its four sides
PaddedInterior(page, pad) ==
    [left |-> page.left + pad, top |-> page.top + pad,
     right |-> page.right - pad, bottom |-> page.bottom - pad]

\* C23: on a vertical advance request of size delta, if delta fits within
\* the remaining content height the content rectangle's top moves down by
\* delta and the page list is unchanged; otherwise exactly one new page is
\* appended at vertical offset previous_page_bottom + 100 * scale and the
\* content rectangle becomes that new page's padded interior.
C23_AdvanceShrinksOrAppends ==
    [][op'.name = "vertical_offset_and_push" =>
        LET delta == op'.arg
            left == RemainingHeight(ctx.page_content_rect)
        IN /\ delta < left =>
                /\ ctx'.page_content_rect =
                       [ctx.page_content_rect EXCEPT !.top = @ + delta]
                /\ pages' = pages
           /\ delta > left =>
                /\ Len(pages') = Len(pages) + 1
                /\ SubSeq(pages', 1, Len(pages)) = pages
                /\ Last(pages').top = Last(pages).bottom + 100 * ctx.scale
                /\ ctx'.page_content_rect =
                       PaddedInterior(Last(pages'),
                                      ctx.page_properties.paddings * Unit)]_vars

----------------------------------------------------------------------------
RECURSIVE RunsContent(_)
\* the concatenation of the contents of the text runs
RunsContent(ts) ==
    IF ts = <<>> THEN <<>> ELSE Head(ts).content \o RunsContent(Tail(ts))

RECURSIVE MaximalWords(_, _)
\* the maximal sequences of non-whitespace graphemes of a text, in order;
\* cur is the sequence in progress
MaximalWords(text, cur) ==
    IF text = <<>> THEN (IF cur = <<>> THEN <<>> ELSE <<cur>>)
    ELSE IF IsBlank(Head(text))
    THEN (IF cur = <<>> THEN <<>> ELSE <<cur>>) \o MaximalWords(Tail(text), <<>>)
    ELSE MaximalWords(Tail(text), Append(cur, Head(text)))

\* C24: for every sequence of text runs, the words returned by get_words
\* are, in order, exactly the maximal sequences of non-whitespace graphemes
\* of the concatenated run contents: no word contains a whitespace grapheme,
\* no word is empty, and a word continues across run boundaries.
C24_WordsAreMaximal ==
    pc = "words" =>
        LET ws == paragraphs[1].words
        IN [i \in 1..Len(ws) |-> ws[i].word]
               = MaximalWords(RunsContent(texts[1]), <<>>)

----------------------------------------------------------------------------
\* every paragraph of the document has at least one word
EveryParagraphHasWord ==
    /\ paragraphs # <<>>
    /\ \A p \in 1..Len(paragraphs) : paragraphs[p].words # <<>>

\* the cursor addresses an existing position of the laid-out document
CursorAddressesPosition ==
    /\ CursorIndexOk(paragraphs, cursor)
    /\ cursor.char_idx >= 0
    /\ get_cursor_target(paragraphs, cursor) # Nothing

\* C25: on a laid-out document in which every paragraph has at least one
\* word, after any sequence of ChangeCharIdx(+1/-1) and ChangeLineIdx(+1/-1)
\* commands the cursor addresses an existing position: line_idx is less than
\* the number of lines of paragraph par_idx and char_idx is less than the
\* number of cursor units of that line, so get_cursor_target never returns
\* Nothing.
C25_CursorStaysOnPosition ==
    (pc = "laid" /\ EveryParagraphHasWord /\ panicked = "none")
        => CursorAddressesPosition

----------------------------------------------------------------------------
\* the line of cursor b is not before the line of cursor a in document order
NotBefore(a, b) ==
    \/ b.par_idx > a.par_idx
    \/ b.par_idx = a.par_idx /\ b.line_idx >= a.line_idx

\* C26: a forward move never moves the cursor backwards in document order:
\* after change_char(+1) or change_line(+1) the pair (par_idx, line_idx) is
\* lexicographically at least its value before the call; in particular at
\* the last line of the last paragraph the cursor stays on that line.
C26_ForwardNeverBackwards ==
    [][((ChangeCharIdx(1) \/ ChangeLineIdx(1)) /\ OnLine /\ panicked' = "none")
            => NotBefore(cursor, cursor')]_vars

----------------------------------------------------------------------------
\* C27: starting from the default scale 1.0, after any sequence of
\* NewScale(s) and RatioScale(r) commands with positive arguments the
\* document's scale lies in [0.1, 2.0], and the ratio handed to
\* scale_by_ratio equals new_scale / old_scale.
C27_ScaleClampedRatioExact ==
    [][op'.name \in ScaleNames =>
        /\ MinScale <= doc_scale' /\ doc_scale' <= MaxScale
        /\ op'.result[1] * doc_scale = op'.result[2] * doc_scale']_vars

\* a RatioScale(4.0) was clamped at the upper bound, and a RatioScale(0.1)
\* at the lower bound
C27_Witness ==
    /\ op.name = "RatioScale"
    /\ \/ op.arg = 40 /\ doc_scale = MaxScale /\ op.result = <<20, 10>>
       \/ op.arg = 1 /\ doc_scale = MinScale /\ op.result = <<1, 5>>

----------------------------------------------------------------------------
\* the width and height of a rectangle, from its sides
Extent(r) == [width |-> r.right - r.left, height |-> r.bottom - r.top]

\* C28: within one relayout pass at any scale in [0.1, 2.0], the content
\* rectangle set for a page appended by the paginator has the same width and
\* height as the content rectangle initially set for the first page.
C28_SamePaddingsOnEveryPage ==
    [][(op'.name = "vertical_offset_and_push" /\ Len(pages') > Len(pages)) =>
        Extent(ctx'.page_content_rect)
            = Extent(FirstCtx(ctx.page_properties, 0, ctx.scale)
                        .page_content_rect)]_vars

----------------------------------------------------------------------------
\* C29: printing then parsing a TextDirection is the identity, and parsing
\* then printing a valid token is the identity: for each of the four tokens
\* lrTb, lrBt, rlTb, rlBt, parse(token).to_string() = token.
C29_DirectionRoundTrip ==
    pc = "printed" =>
        \A i \in 1..Len(texts) :
            /\ from_str(op.result[i]) = saved.directions[i]
            /\ texts[i] \in DirectionTokens => op.result[i] = texts[i]

----------------------------------------------------------------------------
\* C30: in CommandInput mode the console input always begins with ":"
\* (Backspace never removes it), and pressing Enter with any console input
\* of any length completes without failure: the mode becomes Normal (or View
\* for ":view"), the console input is cleared, and an action is started only
\* for the commands view, open and save.
C30_EnterCompletes ==
    /\ pc = "CommandInput" => (texts # <<>> /\ Head(texts) = ":")
    /\ (op.name = "Enter" /\ op.arg = "CommandInput") =>
          /\ panicked = "none"
          /\ pc \in {"Normal", "View"}
          /\ texts = <<>>
          /\ op.result \in {<<>>, <<"view">>, <<"open">>, <<"save">>}

====
